---- MODULE Spec2Model ----
(***************************************************************************)
(* Model of the pipeline-manager graph engine (graph_engine.py), its      *)
(* persistence layer (graph_state.py), the graph API and the MCP proxy     *)
(* with its subprocess connection pool (server.py).                        *)
(*                                                                         *)
(* Names are one character long in the model ("A", "g"), so a name's       *)
(* character sequence is <<name>>; composite strings (full tool names,     *)
(* patterns) are sequences of characters.  Wall-clock fields (timestamp,   *)
(* last_activity) are written by the code and read by no operation; one    *)
(* text stands for every such value.                                       *)
(***************************************************************************)
EXTENDS Integers, Sequences, FiniteSets, TLC

\* Python's None, and the marker of a file that does not exist.
None == "None"
NoFile == "NoFile"

(***************************************************************************)
(* Bounds of the model.                                                    *)
(***************************************************************************)
\* Admin jumps (graph_set_node) recorded in one execution path.
MaxJumps == 1
\* Transitions recorded in a state that is saved and loaded back.
MaxRecorded == 2
\* Edges of a graph given to validate.
MaxEdges == 2
\* Ticks of the clock in _read_message's timeout (120 s), and the ticks
\* counted from the moment a request is written.
ReadTimeout == 2
MaxElapsed == ReadTimeout + 2

(***************************************************************************)
(* graph_engine.py: strings and conditions                                 *)
(***************************************************************************)
startswith(s, p) ==
    /\ Len(p) <= Len(s)
    /\ SubSeq(s, 1, Len(p)) = p

contains(s, p) ==
    \E i \in 0..(Len(s) - Len(p)) : SubSeq(s, i + 1, i + Len(p)) = p

\* f"mcp__{mcp_name}__{tool_name}"
full_name(mcp_name, tool_name) ==
    <<"m", "c", "p", "_", "_">> \o <<mcp_name>> \o <<"_", "_">> \o <<tool_name>>

\* Mutant: only the exact name matches, no prefix and no substring.
matches_tool_exact(cond, mcp_name, tool_name) ==
    IF cond.type \notin {"tool", "default"} THEN FALSE
    ELSE IF cond.tool = <<>> THEN cond.type = "default"
    ELSE full_name(mcp_name, tool_name) = cond.tool

\* EdgeCondition.matches_tool; cond.tool = <<>> stands for None or "".
matches_tool(cond, mcp_name, tool_name) ==
    IF cond.type \notin {"tool", "default"} THEN FALSE
    ELSE IF cond.tool = <<>> THEN cond.type = "default"
    ELSE \/ full_name(mcp_name, tool_name) = cond.tool
         \/ startswith(full_name(mcp_name, tool_name), cond.tool)
         \/ contains(full_name(mcp_name, tool_name), cond.tool)

(***************************************************************************)
(* graph_engine.py: Node, Edge, Graph                                      *)
(***************************************************************************)
Node(id, mcps, blocked, is_start, is_end, max_visits) ==
    [id |-> id, name |-> id, mcps_enabled |-> mcps, tools_blocked |-> blocked,
     is_start |-> is_start, is_end |-> is_end, max_visits |-> max_visits]

EdgeCondition(type, tool, phrases) ==
    [type |-> type, tool |-> tool, phrases |-> phrases]

Edge(id, from_node, to_node, condition, priority) ==
    [id |-> id, from_node |-> from_node, to_node |-> to_node,
     condition |-> condition, priority |-> priority]

\* Mutant: an unstable sort that puts an edge before its equals.
RECURSIVE SortByPriority_ties_reversed(_)
SortByPriority_ties_reversed(es) ==
    IF es = <<>> THEN <<>>
    ELSE LET rest == SortByPriority_ties_reversed(SubSeq(es, 1, Len(es) - 1))
             e == es[Len(es)]
             k == Cardinality({i \in 1..Len(rest) : rest[i].priority < e.priority})
         IN SubSeq(rest, 1, k) \o <<e>> \o SubSeq(rest, k + 1, Len(rest))

\* list.sort(key=lambda e: e.priority): a stable sort, computed by insertion.
RECURSIVE SortByPriority(_)
SortByPriority(es) ==
    IF es = <<>> THEN <<>>
    ELSE LET rest == SortByPriority(SubSeq(es, 1, Len(es) - 1))
             e == es[Len(es)]
             k == Cardinality({i \in 1..Len(rest) : rest[i].priority <= e.priority})
         IN SubSeq(rest, 1, k) \o <<e>> \o SubSeq(rest, k + 1, Len(rest))

\* Graph(metadata=metadata): no nodes, no edges, an empty index.
EmptyGraph(metaname) ==
    [name |-> metaname, nodes |-> <<>>, edges |-> <<>>,
     edges_by_source |-> [n \in {} |-> <<>>]]

NodeIds(g) == {g.nodes[i].id : i \in 1..Len(g.nodes)}

\* graph.nodes.get(id): the node, or None.
NodeGet(g, id) ==
    IF id \in NodeIds(g)
    THEN (CHOOSE i \in 1..Len(g.nodes) : g.nodes[i].id = id)
    ELSE 0

HasNode(g, id) == id \in NodeIds(g)

NodeOf(g, id) == g.nodes[NodeGet(g, id)]

\* Graph.add_node: self.nodes[node.id] = node (a dict keeps the first
\* insertion's position when a key is assigned again).
add_node(g, node) ==
    IF HasNode(g, node.id)
    THEN [g EXCEPT !.nodes[NodeGet(g, node.id)] = node]
    ELSE [g EXCEPT !.nodes = Append(g.nodes, node)]

\* Graph.get_outgoing_edges: self.edges_by_source.get(node_id, [])
get_outgoing_edges(g, node_id) ==
    IF node_id \in DOMAIN g.edges_by_source THEN g.edges_by_source[node_id] ELSE <<>>

\* Graph.add_edge: append, index under from_node, sort that list by priority.
add_edge(g, edge) ==
    [g EXCEPT
       !.edges = Append(g.edges, edge),
       !.edges_by_source =
           [n \in (DOMAIN g.edges_by_source) \cup {edge.from_node} |->
               IF n = edge.from_node
               THEN SortByPriority(Append(get_outgoing_edges(g, n), edge))
               ELSE g.edges_by_source[n]]]

\* Graph.get_start_node: the first node with is_start, else the first node,
\* else None (0).
get_start_node(g) ==
    IF \E i \in 1..Len(g.nodes) : g.nodes[i].is_start
    THEN LET i == CHOOSE i \in 1..Len(g.nodes) :
                     /\ g.nodes[i].is_start
                     /\ \A j \in 1..(i - 1) : ~g.nodes[j].is_start
         IN g.nodes[i].id
    ELSE IF g.nodes # <<>> THEN g.nodes[1].id
    ELSE None

\* Mutant: an edge's to_node is not looked up among the nodes.
validate_without_to_check(g) ==
    LET starts == {i \in 1..Len(g.nodes) : g.nodes[i].is_start}
        with_outgoing == {g.edges[i].from_node : i \in 1..Len(g.edges)}
        with_incoming == {g.edges[i].to_node : i \in 1..Len(g.edges)}
    IN  (IF starts = {} THEN {<<"no_start", None>>}
         ELSE IF Cardinality(starts) > 1 THEN {<<"multiple_start", None>>}
         ELSE {})
        \cup {<<"no_outgoing", g.nodes[i].id>> : i \in
                 {j \in 1..Len(g.nodes) :
                     g.nodes[j].id \notin with_outgoing /\ ~g.nodes[j].is_end}}
        \cup {<<"no_incoming", g.nodes[i].id>> : i \in
                 {j \in 1..Len(g.nodes) :
                     g.nodes[j].id \notin with_incoming /\ ~g.nodes[j].is_start}}
        \cup {<<"unknown_from", g.edges[i].id>> : i \in
                 {j \in 1..Len(g.edges) : ~HasNode(g, g.edges[j].from_node)}}

\* Graph.validate: the set of structural errors (empty when valid).
validate(g) ==
    LET starts == {i \in 1..Len(g.nodes) : g.nodes[i].is_start}
        with_outgoing == {g.edges[i].from_node : i \in 1..Len(g.edges)}
        with_incoming == {g.edges[i].to_node : i \in 1..Len(g.edges)}
    IN  (IF starts = {} THEN {<<"no_start", None>>}
         ELSE IF Cardinality(starts) > 1 THEN {<<"multiple_start", None>>}
         ELSE {})
        \cup {<<"no_outgoing", g.nodes[i].id>> : i \in
                 {j \in 1..Len(g.nodes) :
                     g.nodes[j].id \notin with_outgoing /\ ~g.nodes[j].is_end}}
        \cup {<<"no_incoming", g.nodes[i].id>> : i \in
                 {j \in 1..Len(g.nodes) :
                     g.nodes[j].id \notin with_incoming /\ ~g.nodes[j].is_start}}
        \cup {<<"unknown_from", g.edges[i].id>> : i \in
                 {j \in 1..Len(g.edges) : ~HasNode(g, g.edges[j].from_node)}}
        \cup {<<"unknown_to", g.edges[i].id>> : i \in
                 {j \in 1..Len(g.edges) : ~HasNode(g, g.edges[j].to_node)}}

(***************************************************************************)
(* graph_parser.py: the graph files.  A file's text is modelled by the     *)
(* node and edge records the parser reads from it.                         *)
(***************************************************************************)
RECURSIVE AddNodes(_, _)
AddNodes(g, ns) ==
    IF ns = <<>> THEN g ELSE AddNodes(add_node(g, Head(ns)), Tail(ns))

RECURSIVE AddEdges(_, _)
AddEdges(g, es) ==
    IF es = <<>> THEN g ELSE AddEdges(add_edge(g, Head(es)), Tail(es))

\* The graph files: file stem -> file content.
GraphFiles ==
    [flow |->
        [name |-> "Flow",
         nodes |-> <<Node("start", <<"*">>, <<>>, TRUE, FALSE, 2),
                     Node("work", <<"A">>, <<full_name("A", "r")>>, FALSE, FALSE, 3),
                     Node("done", <<"B">>, <<>>, FALSE, TRUE, 0)>>,
         edges |-> <<Edge("e1", "start", "work",
                          EdgeCondition("tool", full_name("A", "g"), <<>>), 1),
                     Edge("e_done", "work", "done",
                          EdgeCondition("default", <<>>, <<>>), 5),
                     Edge("e_self", "work", "work",
                          EdgeCondition("tool", <<"_", "_", "A", "_", "_">>, <<>>), 2),
                     Edge("e_back", "work", "start",
                          EdgeCondition("phrase", <<>>, <<<<"r", "e", "d", "o">>>>), 2)>>],
     loop |->
        [name |-> "Loop",
         nodes |-> <<Node("loop", <<"X">>, <<>>, TRUE, TRUE, 3)>>,
         edges |-> <<Edge("e_self", "loop", "loop",
                          EdgeCondition("tool", full_name("X", "y"), <<>>), 1)>>],
     spin |->
        [name |-> "Spin",
         nodes |-> <<Node("spin", <<"*">>, <<>>, TRUE, FALSE, 0)>>,
         edges |-> <<Edge("e_spin", "spin", "spin",
                          EdgeCondition("always", <<>>, <<>>), 1)>>],
     once |->
        [name |-> "Once",
         nodes |-> <<Node("solo", <<"*">>, <<>>, TRUE, FALSE, 1)>>,
         edges |-> <<Edge("e_again", "solo", "solo",
                          EdgeCondition("always", <<>>, <<>>), 1)>>],
     ties |->
        [name |-> "Ties",
         nodes |-> <<Node("hub", <<"*">>, <<>>, TRUE, FALSE, 2)>>,
         edges |-> <<Edge("t_a", "hub", "hub",
                          EdgeCondition("tool", full_name("A", "g"), <<>>), 2),
                     Edge("t_b", "hub", "hub",
                          EdgeCondition("default", <<>>, <<>>), 1),
                     Edge("t_c", "hub", "hub",
                          EdgeCondition("tool", <<"m", "c", "p", "_", "_", "A">>, <<>>), 2),
                     Edge("t_f", "hub", "hub",
                          EdgeCondition("tool", <<"g">>, <<>>), 0)>>],
     seven |->
        [name |-> "Seven",
         nodes |-> <<Node("int:7", <<"*">>, <<>>, TRUE, FALSE, 2),
                     Node("w", <<"*">>, <<>>, FALSE, TRUE, 2)>>,
         edges |-> <<Edge("e7", "int:7", "int:7",
                          EdgeCondition("always", <<>>, <<>>), 1),
                     Edge("e_w", "int:7", "w",
                          EdgeCondition("always", <<>>, <<>>), 2),
                     Edge("e_ww", "w", "w",
                          EdgeCondition("always", <<>>, <<>>), 1),
                     Edge("e_b", "w", "int:7",
                          EdgeCondition("always", <<>>, <<>>), 2)>>],
     broken |->
        [name |-> "Broken",
         nodes |-> <<Node("a", <<"*">>, <<>>, TRUE, FALSE, 10)>>,
         edges |-> <<Edge("e_x", "a", "ghost",
                          EdgeCondition("always", <<>>, <<>>), 1)>>]]

\* The graph files there are.  "seven" numbers its first node (id: 7), which
\* the parser reads as an integer; it is the graph.yaml of a project of its
\* own and is in no library.
GraphFileNames == DOMAIN GraphFiles

\* The pipelines library of the project the graph API is called on.
LibraryNames == GraphFileNames \ {"seven"}

\* parse_graph_yaml up to validation: the Graph built by add_node/add_edge.
BuildGraph(file) ==
    AddEdges(AddNodes(EmptyGraph(GraphFiles[file].name), GraphFiles[file].nodes),
             GraphFiles[file].edges)

\* The Graph object parsed from each file (the same on every load).
ParsedGraphs == [f \in GraphFileNames |-> BuildGraph(f)]

\* parse_graph_yaml raises GraphParseError when validate() reports errors.
ParseErrors == [f \in GraphFileNames |-> validate(ParsedGraphs[f])]

GraphParses(file) == ParseErrors[file] = {}

\* load_graph_from_file, for a file that exists and parses.
load_graph_from_file(file) == ParsedGraphs[file]

AllNodeIds == UNION {NodeIds(ParsedGraphs[f]) : f \in LibraryNames}
AllEdgeIds == UNION {{GraphFiles[f].edges[i].id : i \in 1..Len(GraphFiles[f].edges)} :
                        f \in LibraryNames}

(***************************************************************************)
(* graph_engine.py: GraphState                                             *)
(***************************************************************************)
\* max_visits_default of a new state.
DefaultMaxVisits == 10

\* GraphState(): the empty state.
EmptyState ==
    [current_nodes |-> <<>>, node_visits |-> [n \in {} |-> 0],
     execution_path |-> <<>>, active_graph |-> None,
     max_visits_default |-> DefaultMaxVisits, total_transitions |-> 0]

\* datetime.now().isoformat(): the wall-clock text of timestamp and
\* last_activity, which no operation reads; one text stands for all.
Now == "now"

PathEntry(from_node, to_node, edge_id, reason) ==
    [from_node |-> from_node, to_node |-> to_node, edge_id |-> edge_id,
     timestamp |-> Now, reason |-> reason]

get_current_node(state) ==
    IF state.current_nodes # <<>> THEN state.current_nodes[1] ELSE None

get_visit_count(state, node_id) ==
    IF node_id \in DOMAIN state.node_visits THEN state.node_visits[node_id] ELSE 0

\* GraphState.record_transition
record_transition(state, from_node, to_node, edge_id, reason) ==
    [state EXCEPT
       !.execution_path = Append(state.execution_path,
                                 PathEntry(from_node, to_node, edge_id, reason)),
       !.node_visits = [n \in (DOMAIN state.node_visits) \cup {to_node} |->
                           IF n = to_node THEN get_visit_count(state, to_node) + 1
                           ELSE state.node_visits[n]],
       !.current_nodes = <<to_node>>,
       !.total_transitions = state.total_transitions + 1]

\* take_transition's limit for the destination node.
VisitCap(graph, state, node_id) ==
    IF NodeOf(graph, node_id).max_visits > 0
    THEN NodeOf(graph, node_id).max_visits
    ELSE state.max_visits_default

\* Mutant: the limit is tested with > instead of >=.
take_transition_off_by_one(graph, state, edge, reason) ==
    IF ~HasNode(graph, edge.to_node)
    THEN [kind |-> "ValueError", state |-> state]
    ELSE IF get_visit_count(state, edge.to_node) > VisitCap(graph, state, edge.to_node)
    THEN [kind |-> "MaxVisitsExceeded", state |-> state]
    ELSE [kind |-> "ok",
          state |-> record_transition(state, get_current_node(state), edge.to_node,
                                      edge.id, reason)]

\* Mutant: the transition is recorded before the limit is tested.
take_transition_record_first(graph, state, edge, reason) ==
    IF ~HasNode(graph, edge.to_node)
    THEN [kind |-> "ValueError", state |-> state]
    ELSE IF get_visit_count(state, edge.to_node) >= VisitCap(graph, state, edge.to_node)
    THEN [kind |-> "MaxVisitsExceeded",
          state |-> record_transition(state, get_current_node(state), edge.to_node,
                                      edge.id, reason)]
    ELSE [kind |-> "ok",
          state |-> record_transition(state, get_current_node(state), edge.to_node,
                                      edge.id, reason)]

\* take_transition: the outcome and the state object after the call.
take_transition(graph, state, edge, reason) ==
    IF ~HasNode(graph, edge.to_node)
    THEN [kind |-> "ValueError", state |-> state]
    ELSE IF get_visit_count(state, edge.to_node) >= VisitCap(graph, state, edge.to_node)
    THEN [kind |-> "MaxVisitsExceeded", state |-> state]
    ELSE [kind |-> "ok",
          state |-> record_transition(state, get_current_node(state), edge.to_node,
                                      edge.id, reason)]

\* str.lower() on the characters the model uses.
LowerChar(c) ==
    CASE c = "R" -> "r" [] c = "E" -> "e" [] c = "D" -> "d" [] c = "O" -> "o"
      [] OTHER -> c

lower(text) == [i \in 1..Len(text) |-> LowerChar(text[i])]

\* EdgeCondition.matches_phrase: <<matched, phrase>>, the phrase being the
\* first of cond.phrases found in the text (or None).
matches_phrase(cond, text) ==
    IF cond.type \notin {"phrase", "default"} THEN <<FALSE, None>>
    ELSE IF cond.phrases = <<>> THEN <<cond.type = "default", None>>
    ELSE IF \E i \in 1..Len(cond.phrases) : contains(lower(text), lower(cond.phrases[i]))
    THEN LET i == CHOOSE i \in 1..Len(cond.phrases) :
                     /\ contains(lower(text), lower(cond.phrases[i]))
                     /\ \A j \in 1..(i - 1) :
                           ~contains(lower(text), lower(cond.phrases[j]))
         IN <<TRUE, cond.phrases[i]>>
    ELSE <<FALSE, None>>

\* The test evaluate_transitions applies to one outgoing edge.  A trigger is
\* [type, mcp, tool, text]; trigger_value is None when has_value is FALSE.
EdgeIsValid(edge, trigger) ==
    IF trigger.type = "tool" /\ trigger.has_value
    THEN matches_tool(edge.condition, trigger.mcp, trigger.tool)
    ELSE IF trigger.type = "phrase" /\ trigger.has_value
    THEN matches_phrase(edge.condition, trigger.text)[1]
    ELSE IF trigger.type = "none"
    THEN edge.condition.type \in {"always", "default"}
    ELSE FALSE

RECURSIVE FilterValid(_, _)
FilterValid(edges, trigger) ==
    IF edges = <<>> THEN <<>>
    ELSE IF EdgeIsValid(Head(edges), trigger)
    THEN <<Head(edges)>> \o FilterValid(Tail(edges), trigger)
    ELSE FilterValid(Tail(edges), trigger)

ToolTrigger(mcp_name, tool_name) ==
    [type |-> "tool", has_value |-> TRUE, mcp |-> mcp_name, tool |-> tool_name,
     text |-> <<>>]

\* evaluate_transitions
evaluate_transitions(graph, state, trigger) ==
    IF get_current_node(state) = None THEN <<>>
    ELSE SortByPriority(
             FilterValid(get_outgoing_edges(graph, get_current_node(state)), trigger))

(***************************************************************************)
(* graph_state.py: persistence.  A state file is <<>> (no file) or <<d>>,  *)
(* d the JSON object written: JSON keeps strings, numbers and null as they *)
(* are and turns every key of an object into a string.  A node id that the *)
(* parser read as the integer 7 is written "int:7" in the model, and "7"   *)
(* is the string of its digits.                                            *)
(***************************************************************************)
\* The key json.dumps writes for a dict key: str(key) for an int.
json_key(k) == IF k = "int:7" THEN "7" ELSE k

\* json.dumps of a dict, read back by json.loads: the keys become strings;
\* of two keys with the same string the later one's value is read, and an
\* int key was set after the string keys that came from a file.
json_object(d) ==
    [k \in {json_key(x) : x \in DOMAIN d} |->
        IF \E x \in DOMAIN d : x # k /\ json_key(x) = k
        THEN d[CHOOSE x \in DOMAIN d : x # k /\ json_key(x) = k]
        ELSE d[k]]

\* data.get(key, default)
Get(data, key, default) == IF key \in DOMAIN data THEN data[key] ELSE default

\* load_graph_state: GraphState() when there is no file, else the state
\* read from the JSON object, a missing key giving its default.  The
\* entries of execution_path are read field by field as they were written.
load_graph_state(file) ==
    IF file = <<>> THEN EmptyState
    ELSE [current_nodes |-> Get(file[1], "current_nodes", <<>>),
          node_visits |-> Get(file[1], "node_visits", [n \in {} |-> 0]),
          execution_path |-> Get(file[1], "execution_path", <<>>),
          active_graph |-> Get(file[1], "active_graph", None),
          max_visits_default |-> Get(file[1], "max_visits_default", 10),
          total_transitions |-> Get(file[1], "total_transitions", 0)]

\* save_graph_state: the file after the write.
save_graph_state(state) ==
    <<[current_nodes |-> state.current_nodes,
       node_visits |-> json_object(state.node_visits),
       execution_path |-> state.execution_path,
       active_graph |-> state.active_graph,
       max_visits_default |-> state.max_visits_default,
       total_transitions |-> state.total_transitions,
       last_activity |-> Now]>>

\* initialize_graph_state: the new state (which the function also saves).
initialize_graph_state(graph, graph_name) ==
    [current_nodes |-> <<get_start_node(graph)>>,
     node_visits |-> [n \in {get_start_node(graph)} |-> 1],
     execution_path |-> <<PathEntry(None, get_start_node(graph), None, "Graph initialized")>>,
     active_graph |-> graph_name,
     max_visits_default |-> DefaultMaxVisits,
     total_transitions |-> 0]

\* Mutant: the reset state is built like a new one, the name not carried over.
reset_graph_state_forgetting_name(file, graph) ==
    [current_nodes |-> <<get_start_node(graph)>>,
     node_visits |-> [n \in {get_start_node(graph)} |-> 1],
     execution_path |-> <<PathEntry(None, get_start_node(graph), None, "Graph reset")>>,
     active_graph |-> None,
     max_visits_default |-> DefaultMaxVisits,
     total_transitions |-> 0]

\* reset_graph_state: the new state (which the function also saves).
reset_graph_state(file, graph) ==
    [current_nodes |-> <<get_start_node(graph)>>,
     node_visits |-> [n \in {get_start_node(graph)} |-> 1],
     execution_path |-> <<PathEntry(None, get_start_node(graph), None, "Graph reset")>>,
     active_graph |-> load_graph_state(file).active_graph,
     max_visits_default |-> load_graph_state(file).max_visits_default,
     total_transitions |-> 0]

(***************************************************************************)
(* State of one project                                                    *)
(***************************************************************************)
VARIABLES
    graphFile,      \* the project's active graph.yaml: NoFile or a library file's content
    stateFile,      \* graph_state.json: <<>> or <<GraphState>>
    memState,       \* the handler's GraphState object when it returned: <<>> or <<s>>
    lastResult      \* what the last graph API call returned

gvars == <<graphFile, stateFile, memState, lastResult>>

Result(op, kind, arg) == [op |-> op, kind |-> kind, arg |-> arg]

\* _load_active_graph once graph and state are loaded: an empty state is
\* initialized and saved.
active_graph_of(graph, state, sf) ==
    IF state.current_nodes = <<>>
    THEN [kind |-> "ok", graph |-> graph,
          state |-> initialize_graph_state(graph, graph.name),
          file |-> save_graph_state(initialize_graph_state(graph, graph.name))]
    ELSE [kind |-> "ok", graph |-> graph, state |-> state, file |-> sf]

\* _load_active_graph: the outcome, the graph and state it returns and the
\* state file it leaves (it initializes and saves an empty state).
load_active_graph(gf, sf) ==
    IF gf = NoFile THEN [kind |-> "ValueError", file |-> sf]
    ELSE IF ~GraphParses(gf) THEN [kind |-> "GraphParseError", file |-> sf]
    ELSE active_graph_of(load_graph_from_file(gf), load_graph_state(sf), sf)

\* The edge graph_traverse finds: the first in graph.edges with that id, or 0.
FindEdge(graph, edge_id) ==
    IF \E i \in 1..Len(graph.edges) : graph.edges[i].id = edge_id
    THEN CHOOSE i \in 1..Len(graph.edges) :
            /\ graph.edges[i].id = edge_id
            /\ \A j \in 1..(i - 1) : graph.edges[j].id # edge_id
    ELSE 0

\* Mutant: the edge's from_node is not compared with the current node.
graph_traverse_any_source(edge_id) ==
    LET la == load_active_graph(graphFile, stateFile) IN
    /\ graphFile' = graphFile
    /\ IF la.kind # "ok"
       THEN /\ stateFile' = la.file
            /\ memState' = <<>>
            /\ lastResult' = Result("traverse", la.kind, edge_id)
       ELSE IF FindEdge(la.graph, edge_id) = 0
       THEN /\ stateFile' = la.file
            /\ memState' = <<la.state>>
            /\ lastResult' = Result("traverse", "EdgeNotFound", edge_id)
       ELSE LET edge == la.graph.edges[FindEdge(la.graph, edge_id)]
                tt == take_transition(la.graph, la.state, edge, "Manual traverse") IN
            /\ stateFile' = IF tt.kind = "ok" THEN save_graph_state(tt.state)
                            ELSE la.file
            /\ memState' = <<tt.state>>
            /\ lastResult' = Result("traverse",
                                    IF tt.kind = "ok" THEN "success" ELSE tt.kind,
                                    edge_id)

\* graph_traverse(edge_id)
graph_traverse(edge_id) ==
    \E la \in {load_active_graph(graphFile, stateFile)} :
    /\ graphFile' = graphFile
    /\ IF la.kind # "ok"
       THEN /\ stateFile' = la.file
            /\ memState' = <<>>
            /\ lastResult' = Result("traverse", la.kind, edge_id)
       ELSE IF FindEdge(la.graph, edge_id) = 0
       THEN /\ stateFile' = la.file
            /\ memState' = <<la.state>>
            /\ lastResult' = Result("traverse", "EdgeNotFound", edge_id)
       ELSE LET edge == la.graph.edges[FindEdge(la.graph, edge_id)] IN
            IF edge.from_node # get_current_node(la.state)
            THEN /\ stateFile' = la.file
                 /\ memState' = <<la.state>>
                 /\ lastResult' = Result("traverse", "EdgeNotFromCurrentNode", edge_id)
            ELSE LET tt == take_transition(la.graph, la.state, edge, "Manual traverse") IN
                 /\ stateFile' = IF tt.kind = "ok" THEN save_graph_state(tt.state)
                                 ELSE la.file
                 /\ memState' = <<tt.state>>
                 /\ lastResult' = Result("traverse",
                                         IF tt.kind = "ok" THEN "success" ELSE tt.kind,
                                         edge_id)

\* Admin jumps recorded in a state's execution path.
NumJumps(state) ==
    Cardinality({i \in 1..Len(state.execution_path) :
                    state.execution_path[i].reason = "Admin jump"})

\* graph_set_node(node_id)
graph_set_node(node_id) ==
    \E la \in {load_active_graph(graphFile, stateFile)} :
    /\ NumJumps(load_graph_state(stateFile)) < MaxJumps
    /\ graphFile' = graphFile
    /\ IF la.kind # "ok"
       THEN /\ stateFile' = la.file
            /\ memState' = <<>>
            /\ lastResult' = Result("set_node", la.kind, node_id)
       ELSE IF ~HasNode(la.graph, node_id)
       THEN /\ stateFile' = la.file
            /\ memState' = <<la.state>>
            /\ lastResult' = Result("set_node", "NodeNotFound", node_id)
       ELSE LET st == record_transition(la.state, get_current_node(la.state), node_id,
                                        None, "Admin jump") IN
            /\ stateFile' = save_graph_state(st)
            /\ memState' = <<st>>
            /\ lastResult' = Result("set_node", "success", node_id)

\* graph_reset
graph_reset ==
    \E la \in {load_active_graph(graphFile, stateFile)} :
    /\ graphFile' = graphFile
    /\ IF la.kind # "ok"
       THEN /\ stateFile' = la.file
            /\ memState' = <<>>
            /\ lastResult' = Result("reset", la.kind, None)
       ELSE /\ stateFile' = save_graph_state(reset_graph_state(la.file, la.graph))
            /\ memState' = <<reset_graph_state(la.file, la.graph)>>
            /\ lastResult' = Result("reset", "success", None)

\* The values of new_max the caller passes.
NewMaxValues == {2, 5}

\* graph_override_max_visits(node_id, new_max): the override is made on the
\* handler's own Graph object, which no later call sees.
graph_override_max_visits(node_id, new_max) ==
    \E la \in {load_active_graph(graphFile, stateFile)} :
    /\ graphFile' = graphFile
    /\ stateFile' = la.file
    /\ IF la.kind # "ok"
       THEN /\ memState' = <<>>
            /\ lastResult' = Result("override_max_visits", la.kind, <<node_id, new_max>>)
       ELSE /\ memState' = <<la.state>>
            /\ lastResult' =
                 Result("override_max_visits",
                        IF ~HasNode(la.graph, node_id) THEN "NodeNotFound"
                        ELSE IF new_max <= get_visit_count(la.state, node_id)
                        THEN "NotGreaterThanVisits"
                        ELSE "success",
                        <<node_id, new_max>>)

\* graph_activate(graph_name): copy the library file over graph.yaml and
\* initialize the state under the library name.
graph_activate(graph_name) ==
    IF graph_name \notin LibraryNames
    THEN /\ UNCHANGED <<graphFile, stateFile>>
         /\ memState' = <<>>
         /\ lastResult' = Result("activate", "GraphNotFound", graph_name)
    ELSE IF ~GraphParses(graph_name)
    THEN /\ UNCHANGED <<graphFile, stateFile>>
         /\ memState' = <<>>
         /\ lastResult' = Result("activate", "GraphParseError", graph_name)
    ELSE /\ graphFile' = graph_name
         /\ stateFile' = save_graph_state(
                             initialize_graph_state(load_graph_from_file(graph_name),
                                                    graph_name))
         /\ memState' = <<initialize_graph_state(load_graph_from_file(graph_name),
                                                 graph_name)>>
         /\ lastResult' = Result("activate", "success", graph_name)


\* The trigger of graph_check_phrase: {'text': text}.
PhraseTrigger(text) ==
    [type |-> "phrase", has_value |-> TRUE, mcp |-> None, tool |-> None, text |-> text]

\* edges_info and recommended_edge of a graph_check_* result.
MatchInfo(matching_edges) ==
    [matching_edges |-> [i \in 1..Len(matching_edges) |->
                            [id |-> matching_edges[i].id, to |-> matching_edges[i].to_node,
                             priority |-> matching_edges[i].priority]],
     recommended_edge |-> matching_edges[1].id]

\* Mutant: a check that finds matching edges takes the recommended one.
graph_check_traversing(op, trigger) ==
    LET la == load_active_graph(graphFile, stateFile) IN
    /\ graphFile' = graphFile
    /\ IF la.kind # "ok"
       THEN /\ stateFile' = la.file
            /\ memState' = <<>>
            /\ lastResult' = Result(op, la.kind, trigger)
       ELSE IF evaluate_transitions(la.graph, la.state, trigger) = <<>>
       THEN /\ stateFile' = la.file
            /\ memState' = <<la.state>>
            /\ lastResult' = Result(op, "not_matched", trigger)
       ELSE LET first == evaluate_transitions(la.graph, la.state, trigger)[1]
                st == record_transition(la.state, get_current_node(la.state),
                                        first.to_node, first.id, "check")
            IN /\ stateFile' = save_graph_state(st)
               /\ memState' = <<st>>
               /\ lastResult' =
                    Result(op, "matched",
                           MatchInfo(evaluate_transitions(la.graph, la.state, trigger)))

\* graph_check_tool / graph_check_phrase after the project is resolved: load
\* (which initializes and saves an empty state), evaluate, report.
graph_check(op, trigger) ==
    \E la \in {load_active_graph(graphFile, stateFile)} :
    /\ graphFile' = graphFile
    /\ stateFile' = la.file
    /\ IF la.kind # "ok"
       THEN /\ memState' = <<>>
            /\ lastResult' = Result(op, la.kind, trigger)
       ELSE /\ memState' = <<la.state>>
            /\ lastResult' =
                 IF evaluate_transitions(la.graph, la.state, trigger) = <<>>
                 THEN Result(op, "not_matched", trigger)
                 ELSE Result(op, "matched",
                             MatchInfo(evaluate_transitions(la.graph, la.state, trigger)))

\* graph_check_tool(mcp_name, tool_name)
graph_check_tool(mcp_name, tool_name) ==
    graph_check("check_tool", ToolTrigger(mcp_name, tool_name))

\* The texts the caller passes to graph_check_phrase.
Texts == {<<>>, <<"r", "e", "d", "o">>, <<"R", "e">>, <<"x">>}

\* graph_check_phrase(text)
graph_check_phrase(text) ==
    graph_check("check_phrase", PhraseTrigger(text))

(***************************************************************************)
(* server.py: the session registry.  Only project "P" has its files in     *)
(* the model; "Q" is another project's directory.                          *)
(***************************************************************************)
VARIABLES
    session_store,      \* _session_store: session id -> project_dir
    default_session     \* _default_session["project_dir"], or None

svars == <<session_store, default_session>>

Dirs == {"P", "Q"}
SessionIds == {"s1", "s2"}
\* The ids uuid.uuid4() returns, none of which a caller passes.
Uuids == {"u1"}

\* Python's truth test of an optional string.
Truthy(v) == v \notin {None, ""}

Registry == [store |-> session_store, default |-> default_session]

\* get_session_project_dir
get_session_project_dir(reg, session_id) ==
    IF Truthy(session_id) /\ session_id \in DOMAIN reg.store
    THEN reg.store[session_id]
    ELSE reg.default

\* set_session_project_dir: the registry after the call.
set_session_project_dir(reg, session_id, project_dir) ==
    [store |-> IF Truthy(session_id)
               THEN [s \in (DOMAIN reg.store) \cup {session_id} |->
                        IF s = session_id THEN project_dir ELSE reg.store[s]]
               ELSE reg.store,
     default |-> project_dir]

\* Mutant: the default slot is preferred to the session's own slot.
resolve_project_dir_default_first(reg, project_dir, session_id) ==
    IF Truthy(project_dir)
    THEN [kind |-> "ok", dir |-> project_dir,
          sid |-> IF Truthy(session_id) THEN session_id ELSE "default",
          reg |-> set_session_project_dir(reg, session_id, project_dir)]
    ELSE IF Truthy(reg.default)
    THEN [kind |-> "ok", dir |-> reg.default,
          sid |-> IF Truthy(session_id) THEN session_id ELSE "default",
          reg |-> reg]
    ELSE [kind |-> "ValueError", dir |-> None,
          sid |-> IF Truthy(session_id) THEN session_id ELSE "default",
          reg |-> reg]

\* resolve_project_dir: the outcome (ValueError when it raises), the
\* directory and session label it returns, and the registry it leaves.
resolve_project_dir(reg, project_dir, session_id) ==
    IF Truthy(project_dir)
    THEN [kind |-> "ok", dir |-> project_dir,
          sid |-> IF Truthy(session_id) THEN session_id ELSE "default",
          reg |-> set_session_project_dir(reg, session_id, project_dir)]
    ELSE IF Truthy(get_session_project_dir(reg, session_id))
    THEN [kind |-> "ok", dir |-> get_session_project_dir(reg, session_id),
          sid |-> IF Truthy(session_id) THEN session_id ELSE "default",
          reg |-> reg]
    ELSE [kind |-> "ValueError", dir |-> None,
          sid |-> IF Truthy(session_id) THEN session_id ELSE "default",
          reg |-> reg]

\* A caller-facing operation that begins with resolve_project_dir, outside
\* any try: when the resolution raises, so does the operation; otherwise
\* the handler runs on the resolved project.
WithSession(op, project_dir, session_id, handler) ==
    LET r == resolve_project_dir(Registry, project_dir, session_id) IN
    IF r.kind = "ValueError"
    THEN /\ lastResult' = Result(op, "raise", "ValueError")
         /\ UNCHANGED <<graphFile, stateFile, memState, session_store, default_session>>
    ELSE /\ r.dir = "P"
         /\ session_store' = r.reg.store
         /\ default_session' = r.reg.default
         /\ handler

\* set_session(project_dir, session_id): binds the session's slot (a new
\* uuid's when no id is given) and the default slot.
set_session(project_dir, session_id) ==
    \E sid \in SessionIds \cup Uuids :
        /\ IF Truthy(session_id) THEN sid = session_id
           ELSE sid \in Uuids \ DOMAIN session_store
        /\ session_store' =
               set_session_project_dir(Registry, sid, project_dir).store
        /\ default_session' =
               set_session_project_dir(Registry, sid, project_dir).default
        /\ lastResult' = Result("set_session", "success",
                                [project_dir |-> project_dir, session_id |-> session_id,
                                 sid |-> sid])
        /\ UNCHANGED <<graphFile, stateFile, memState>>

\* A call of resolve_project_dir on its own, its outcome kept in lastResult.
resolve(project_dir, session_id) ==
    LET r == resolve_project_dir(Registry, project_dir, session_id) IN
    /\ session_store' = r.reg.store
    /\ default_session' = r.reg.default
    /\ lastResult' = Result("resolve", r.kind,
                            [project_dir |-> project_dir, session_id |-> session_id,
                             dir |-> r.dir, sid |-> r.sid])
    /\ UNCHANGED <<graphFile, stateFile, memState>>

\* The registry of a new server process.
SessionInit ==
    /\ session_store = [s \in {} |-> None]
    /\ default_session = None

\* The registry once set_session("P") or a call with project_dir = "P" and
\* no session id has bound the project; such calls leave it as it is.
SessionBound ==
    /\ session_store = [s \in {} |-> None]
    /\ default_session = "P"
(***************************************************************************)
(* server.py: the MCP proxy.  Every request the server handles is a task   *)
(* of one event loop; a task runs without interruption from one await that *)
(* suspends to the next.  The operators below take the server's state as a *)
(* record w and return it as the code leaves it at the next suspension.    *)
(***************************************************************************)
\* load_mcp_configs(): the providers that have a command configured.
Providers == {"A", "B"}

\* Provider and tool names a caller passes ("Z" is in no configuration).
ProviderNames == Providers \cup {"Z"}
ToolNames == {"g", "r"}

\* Requests the server handles at once, and requests issued in one run.
NTasks == 3
MaxRequests == 2

\* Notifications one child writes unasked.
MaxNotes == 1

\* McpConnection objects created in one run.
MaxConns == 3

Tasks == 1..NTasks

\* for _ in range(10) in McpConnection._initialize
HandshakeReads == 10

VARIABLES
    pool,               \* _mcp_connections: provider name -> connection (0: absent)
    conns,              \* the McpConnection objects, in order of creation
    locks,              \* the asyncio.Lock of each connection: holder and waiters
    procs,              \* the child processes, in order of creation
    request_counter,    \* _request_counter
    tasks,              \* the requests in progress: position and locals
    wire                \* the tools/call and tools/list requests written to children

cvars == <<pool, conns, locks, procs, request_counter, tasks, wire>>

vars == <<graphFile, stateFile, memState, lastResult, session_store, default_session,
          pool, conns, locks, procs, request_counter, tasks, wire>>

\* A JSON-RPC message a child writes: id 0 stands for no id; re is the
\* method of the request a response answers.
NoMsg == [id |-> 0, kind |-> "none", re |-> "none"]
Notification == [id |-> 0, kind |-> "notification", re |-> "none"]
Response(req, kind) == [id |-> req.id, kind |-> kind, re |-> req.method]

\* What a tool returns to its caller.
ToolResult(kind, msg, allowed, hint) ==
    [kind |-> kind, msg |-> msg, allowed |-> allowed, hint |-> hint]

NoResult == ToolResult("none", NoMsg, <<>>, <<>>)

IdleTask ==
    [pc |-> "idle", op |-> "none", mcp |-> None, tool |-> None, conn |-> 0,
     proc |-> 0, rid |-> 0, reads |-> 0, waited |-> 0, elapsed |-> 0,
     hint |-> <<>>, blocked |-> FALSE,
     pool_accessed |-> FALSE, queue |-> <<>>, size |-> 0, errors |-> 0,
     result |-> NoResult]

\* McpConnection.__init__
McpConnection(name) ==
    [name |-> name, process |-> 0, initialized |-> FALSE, init_request_id |-> 0]

\* asyncio.Lock(): not held, nobody waiting.
NewLock == [holder |-> 0, waiters |-> <<>>]

\* A child just spawned.  init_sent, init_ok and notified record the
\* handshake made with this process.
NewProcess(c) ==
    [conn |-> c, alive |-> TRUE, pending |-> {}, notes |-> 0, init_sent |-> {},
     init_ok |-> FALSE, notified |-> FALSE]

World ==
    [pool |-> pool, conns |-> conns, locks |-> locks, procs |-> procs,
     counter |-> request_counter, tasks |-> tasks, wire |-> wire,
     sf |-> stateFile]

InList(x, list) == \E i \in 1..Len(list) : list[i] = x

\* Mutant: a process that has exited still counts as running.
Running_ignoring_exit(w, c) ==
    w.conns[c].process # 0

\* self.process and self.process.returncode is None
Running(w, c) ==
    /\ w.conns[c].process # 0
    /\ w.procs[w.conns[c].process].alive

\* The handshake was completed with process p.
Handshaken(w, p) ==
    /\ w.procs[p].init_sent # {}
    /\ w.procs[p].init_ok
    /\ w.procs[p].notified

\* Mutant: one lock shared by every connection.
LockOf_shared(c) == 1

\* The lock a connection's call_tool takes: its own (self._lock).
LockOf(c) == c

\* Mutant: a free lock is taken even when tasks are queued for it.
lock_free_barging(lk) == lk.holder = 0

\* asyncio.Lock.acquire returns at once when the lock is not held and
\* nobody waits for it.
lock_free(lk) == lk.holder = 0 /\ lk.waiters = <<>>

\* asyncio.Lock.release: the first waiter is woken.
release(w, c) == [w EXCEPT !.locks[LockOf(c)].holder = 0]

\* The handler returns result to its caller.
Return(w, t, result) ==
    [w EXCEPT !.tasks[t] = [@ EXCEPT !.pc = "done", !.result = result]]

\* Mutant: an error also marks the connection as not initialized.
call_tool_error_reset(w, t, detail) ==
    Return(release([w EXCEPT !.conns[w.tasks[t].conn].initialized = FALSE],
                   w.tasks[t].conn), t,
           ToolResult("error", [NoMsg EXCEPT !.kind = detail], <<>>, <<>>))

\* call_tool returned an error dict, or raised: the lock is released and
\* execute_mcp_tool returns an error.
call_tool_error(w, t, detail) ==
    Return(release(w, w.tasks[t].conn), t,
           ToolResult("error", [NoMsg EXCEPT !.kind = detail], <<>>, <<>>))

\* Mutant: the first matching edge is traversed when the tool succeeded.
execute_finish_auto_advance(w, t, msg) ==
    LET w1 == release(w, w.tasks[t].conn)
        hint == w.tasks[t].hint
        st == load_graph_state(w.sf)
    IN  IF msg.kind = "error"
        THEN Return(w1, t, ToolResult("error", msg, <<>>, <<>>))
        ELSE Return([w1 EXCEPT !.sf =
                        IF hint # <<>> /\ st.current_nodes # <<>>
                        THEN save_graph_state(
                                 record_transition(st, get_current_node(st),
                                                   hint[1].to_node, hint[1].id,
                                                   "Auto advance"))
                        ELSE @],
                    t, ToolResult("ok", msg, <<>>, hint))

\* execute_mcp_tool, steps 5 and 6: call_tool returned the message msg.
execute_finish(w, t, msg) ==
    LET w1 == release(w, w.tasks[t].conn) IN
    IF msg.kind = "error"
    THEN Return(w1, t, ToolResult("error", msg, <<>>, <<>>))
    ELSE Return(w1, t, ToolResult("ok", msg, <<>>, w.tasks[t].hint))

\* The positions at which a task waits for a line of a child's stdout.
ReadPcs == {"hs_read", "call_read", "list_read"}

\* refresh_tool_index returns.
refresh_result(w, t) ==
    Return(w, t, ToolResult(IF w.tasks[t].errors = 0 THEN "ok" ELSE "error",
                            NoMsg, <<>>, <<>>))

\* Mutant: a configured provider gets a new connection on every call.
get_mcp_connection_uncached(w, t, name) ==
    IF name \notin Providers
    THEN [w EXCEPT !.tasks[t] = [@ EXCEPT !.conn = 0, !.pool_accessed = TRUE]]
    ELSE [w EXCEPT !.conns = Append(@, McpConnection(name)),
                   !.locks = Append(@, NewLock),
                   !.pool[name] = Len(w.conns) + 1,
                   !.tasks[t] = [@ EXCEPT !.conn = Len(w.conns) + 1,
                                          !.pool_accessed = TRUE]]

\* get_mcp_connection: the pooled connection, a new one for a configured
\* provider, or None (0).
get_mcp_connection(w, t, name) ==
    IF w.pool[name] # 0
    THEN [w EXCEPT !.tasks[t] = [@ EXCEPT !.conn = w.pool[name],
                                          !.pool_accessed = TRUE]]
    ELSE IF name \notin Providers
    THEN [w EXCEPT !.tasks[t] = [@ EXCEPT !.conn = 0, !.pool_accessed = TRUE]]
    ELSE [w EXCEPT !.conns = Append(@, McpConnection(name)),
                   !.locks = Append(@, NewLock),
                   !.pool[name] = Len(w.conns) + 1,
                   !.tasks[t] = [@ EXCEPT !.conn = Len(w.conns) + 1,
                                          !.pool_accessed = TRUE]]

RECURSIVE refresh_loop(_, _)

\* refresh_tool_index: errors.append(...) and on to the next name.
refresh_error(w, t) == refresh_loop([w EXCEPT !.tasks[t].errors = @ + 1], t)

\* An exception, or call_tool's error dict, at the task's current step.
Fail(w, t, detail) ==
    IF w.tasks[t].op = "execute" THEN call_tool_error(w, t, detail)
    ELSE refresh_error(w, t)

\* _read_message up to its await: the task waits for a line of the stdout
\* of the connection's current process.  A StreamReader serves one waiting
\* reader; readline raises RuntimeError for a second one.
read_begin(w, t, pc) ==
    LET p == w.conns[w.tasks[t].conn].process IN
    IF \E u \in Tasks \ {t} : w.tasks[u].pc \in ReadPcs /\ w.tasks[u].proc = p
    THEN Fail(w, t, "RuntimeError")
    ELSE [w EXCEPT !.tasks[t] = [@ EXCEPT !.pc = pc, !.proc = p]]

\* _send_message of a request: written to the stdin of the connection's
\* current process; writing to a process that has exited raises.
send_request(w, t, id, method) ==
    LET p == w.conns[w.tasks[t].conn].process IN
    [w EXCEPT
       !.procs[p].pending = @ \cup {[id |-> id, method |-> method]},
       !.procs[p].init_sent = IF method = "initialize" THEN @ \cup {id} ELSE @,
       !.wire = IF method = "initialize" THEN @
                ELSE @ \cup {[proc |-> p, method |-> method, id |-> id,
                              mcp |-> w.conns[w.tasks[t].conn].name,
                              tool |-> w.tasks[t].tool,
                              blocked |-> w.tasks[t].blocked,
                              handshaken |-> Handshaken(w, p)]}]

\* call_tool: the tools/call request is sent with the caller's request_id
\* and the response awaited.
send_call(w, t) ==
    IF ~Running(w, w.tasks[t].conn) THEN call_tool_error(w, t, "Exception")
    ELSE read_begin(send_request(w, t, w.tasks[t].rid, "tools/call"), t, "call_read")

\* refresh_tool_index: the tools/list request carries the value
\* _request_counter has when the request is built.
refresh_send(w, t) ==
    IF ~Running(w, w.tasks[t].conn) THEN refresh_error(w, t)
    ELSE read_begin(send_request(w, t, w.counter, "tools/list"), t, "list_read")

\* After the handshake, or when none is needed.
after_initialize(w, t) ==
    IF w.tasks[t].op = "execute" THEN send_call(w, t) ELSE refresh_send(w, t)

\* _initialize up to its first read: the next initialize id is sent.
initialize(w, t) ==
    LET c == w.tasks[t].conn
        w1 == [w EXCEPT !.conns[c].init_request_id = @ + 1,
                        !.tasks[t].reads = 0]
    IN  IF ~Running(w, c) THEN Fail(w1, t, "Exception")
        ELSE read_begin(send_request(w1, t, w1.conns[c].init_request_id, "initialize"),
                        t, "hs_read")

\* After start(): the handshake is made if self._initialized is not set.
after_start(w, t) ==
    IF ~w.conns[w.tasks[t].conn].initialized THEN initialize(w, t)
    ELSE after_initialize(w, t)

\* if not self.process or self.process.returncode is not None: await start()
ensure_started(w, t) ==
    IF ~Running(w, w.tasks[t].conn) THEN [w EXCEPT !.tasks[t].pc = "starting"]
    ELSE after_start(w, t)

\* refresh_tool_index: the loop over mcps_to_index, up to the next await.
refresh_loop(w, t) ==
    IF w.tasks[t].queue = <<>> THEN refresh_result(w, t)
    ELSE LET name == Head(w.tasks[t].queue)
             w1 == [w EXCEPT !.tasks[t].queue = Tail(@)]
         IN  IF name \notin Providers THEN refresh_error(w1, t)
             ELSE ensure_started(
                      [get_mcp_connection(w1, t, name) EXCEPT !.counter = @ + 1], t)

\* McpConnection.call_tool up to its first suspension: async with self._lock.
call_tool(w, t) ==
    LET l == LockOf(w.tasks[t].conn) IN
    IF lock_free(w.locks[l])
    THEN ensure_started([w EXCEPT !.locks[l].holder = t], t)
    ELSE [w EXCEPT !.locks[l].waiters = Append(@, t),
                   !.tasks[t].pc = "lockwait"]

\* Mutant: the first message read is taken for the initialize response.
initialize_read_first_message(w, t, msg) ==
    LET c == w.tasks[t].conn IN
    IF msg.kind = "error" THEN Fail(w, t, "RuntimeError")
    ELSE IF ~Running(w, c) THEN Fail(w, t, "Exception")
    ELSE [w EXCEPT
            !.procs[w.tasks[t].proc].init_ok =
                @ \/ (msg.re = "initialize" /\ msg.id \in w.procs[w.tasks[t].proc].init_sent),
            !.procs[w.conns[c].process].notified = TRUE,
            !.tasks[t].pc = "hs_sleep"]

\* _initialize: a message was read while waiting for the initialize response.
initialize_read(w, t, msg) ==
    LET c == w.tasks[t].conn IN
    IF msg.id = w.conns[c].init_request_id
    THEN IF msg.kind = "error" THEN Fail(w, t, "RuntimeError")
         ELSE IF ~Running(w, c) THEN Fail(w, t, "Exception")
         ELSE [w EXCEPT
                 !.procs[w.tasks[t].proc].init_ok =
                     @ \/ (msg.re = "initialize" /\ msg.id \in w.procs[w.tasks[t].proc].init_sent),
                 !.procs[w.conns[c].process].notified = TRUE,
                 !.tasks[t].pc = "hs_sleep"]
    ELSE IF w.tasks[t].reads + 1 >= HandshakeReads THEN Fail(w, t, "RuntimeError")
    ELSE read_begin([w EXCEPT !.tasks[t].reads = @ + 1], t, "hs_read")

\* execute_mcp_tool, step 1, once _load_active_graph has returned la.
exec_loaded(la) ==
    [enabled |-> IF HasNode(la.graph, get_current_node(la.state))
                 THEN NodeOf(la.graph, get_current_node(la.state)).mcps_enabled
                 ELSE <<"*">>,
     graph |-> <<la.graph>>, state |-> <<la.state>>, file |-> la.file]

\* execute_mcp_tool, step 1: the graph and state it loads, the providers the
\* current node enables and the state file it leaves.  Any exception leaves
\* every provider enabled.
exec_load(gf, sf) ==
    IF gf = NoFile \/ ~GraphParses(gf)
    THEN [enabled |-> <<"*">>, graph |-> <<>>, state |-> <<>>, file |-> sf]
    ELSE exec_loaded(load_active_graph(gf, sf))

\* Mutant: the edges are evaluated without the tool, as for a 'none' trigger.
exec_hint_without_trigger(ld, mcp_name, tool_name) ==
    IF ld.graph = <<>> THEN <<>>
    ELSE evaluate_transitions(ld.graph[1], ld.state[1],
                              [ToolTrigger(mcp_name, tool_name) EXCEPT !.type = "none"])

\* The edges step 5 reports for the graph and state loaded in step 1.
exec_hint(ld, mcp_name, tool_name) ==
    IF ld.graph = <<>> THEN <<>>
    ELSE evaluate_transitions(ld.graph[1], ld.state[1], ToolTrigger(mcp_name, tool_name))

\* The tool is on the tools_blocked list of the current node.
tool_blocked(ld, mcp_name, tool_name) ==
    /\ ld.graph # <<>>
    /\ HasNode(ld.graph[1], get_current_node(ld.state[1]))
    /\ InList(full_name(mcp_name, tool_name),
              NodeOf(ld.graph[1], get_current_node(ld.state[1])).tools_blocked)

\* The locals of execute_mcp_tool after step 1.
exec_task(ld, mcp_name, tool_name) ==
    [IdleTask EXCEPT !.op = "execute", !.mcp = mcp_name, !.tool = tool_name,
                     !.hint = exec_hint(ld, mcp_name, tool_name),
                     !.blocked = tool_blocked(ld, mcp_name, tool_name)]

\* Mutant: the connection is fetched before the policy is tested.
execute_begin_pool_first(w, t, mcp_name, tool_name) ==
    LET ld == exec_load(graphFile, w.sf)
        w1 == [w EXCEPT !.sf = ld.file, !.tasks[t] = exec_task(ld, mcp_name, tool_name)]
        w2 == get_mcp_connection(w1, t, mcp_name)
    IN  IF ~InList("*", ld.enabled) /\ ~InList(mcp_name, ld.enabled)
        THEN Return(w2, t, ToolResult("PolicyDenied", NoMsg, ld.enabled, <<>>))
        ELSE IF w2.tasks[t].conn = 0
        THEN Return(w2, t, ToolResult("ProviderNotConfigured", NoMsg, <<>>, <<>>))
        ELSE call_tool([w2 EXCEPT !.counter = @ + 1,
                                  !.tasks[t].rid = w2.counter + 1], t)

\* execute_mcp_tool, steps 2 to 4, with the outcome ld of step 1.
execute_steps(w, t, mcp_name, tool_name, ld) ==
    LET w1 == [w EXCEPT !.sf = ld.file, !.tasks[t] = exec_task(ld, mcp_name, tool_name)]
        w2 == get_mcp_connection(w1, t, mcp_name)
    IN  IF ~InList("*", ld.enabled) /\ ~InList(mcp_name, ld.enabled)
        THEN Return(w1, t, ToolResult("PolicyDenied", NoMsg, ld.enabled, <<>>))
        ELSE IF w2.tasks[t].conn = 0
        THEN Return(w2, t, ToolResult("ProviderNotConfigured", NoMsg, <<>>, <<>>))
        ELSE call_tool([w2 EXCEPT !.counter = @ + 1,
                                  !.tasks[t].rid = w2.counter + 1], t)

\* execute_mcp_tool up to its first suspension.
execute_begin(w, t, mcp_name, tool_name) ==
    execute_steps(w, t, mcp_name, tool_name, exec_load(graphFile, w.sf))

\* The state the server is left in by a step of a task.
Becomes(w) ==
    /\ pool' = w.pool
    /\ conns' = w.conns
    /\ locks' = w.locks
    /\ procs' = w.procs
    /\ request_counter' = w.counter
    /\ tasks' = w.tasks
    /\ wire' = w.wire
    /\ stateFile' = w.sf
    /\ UNCHANGED <<graphFile, memState, lastResult, session_store, default_session>>

\* What a running child may write next: the response (result or error) to
\* a request it has not answered, or a notification.
ChildOutputs(p) ==
    {Response(r, k) : r \in procs[p].pending, k \in {"result", "error"}}
        \cup (IF procs[p].notes < MaxNotes THEN {Notification} ELSE {})

\* The child's state once it has written msg.
Answered(w, p, msg) ==
    [w EXCEPT !.procs[p].pending = @ \ {[id |-> msg.id, method |-> msg.re]},
              !.procs[p].notes = IF msg = Notification THEN @ + 1 ELSE @]

\* A call of execute_mcp_tool(mcp_name, tool_name, ...) arrives.
ExecBegin(t, mcp_name, tool_name) ==
    /\ tasks[t].pc = "idle"
    /\ Becomes(execute_begin(World, t, mcp_name, tool_name))

\* A call of refresh_tool_index(mcp_name) arrives; None stands for every
\* configured provider.
RefreshBegin(t, mcp_name) ==
    /\ tasks[t].pc = "idle"
    /\ Becomes(refresh_loop(
           [World EXCEPT !.tasks[t] =
               [IdleTask EXCEPT !.op = "refresh",
                                !.queue = IF mcp_name = None THEN <<"A", "B">>
                                          ELSE <<mcp_name>>]], t))

\* The lock's first waiter, woken by release, takes the lock.
LockResume(t) ==
    /\ tasks[t].pc = "lockwait"
    /\ locks[LockOf(tasks[t].conn)].holder = 0
    /\ locks[LockOf(tasks[t].conn)].waiters # <<>>
    /\ Head(locks[LockOf(tasks[t].conn)].waiters) = t
    /\ Becomes(ensure_started(
           [World EXCEPT !.locks[LockOf(tasks[t].conn)] =
               [holder |-> t, waiters |-> Tail(@.waiters)]], t))

\* start(): create_subprocess_exec returns the new process.
StartDone(t) ==
    /\ tasks[t].pc = "starting"
    /\ Becomes(after_start(
           [World EXCEPT !.procs = Append(@, NewProcess(tasks[t].conn)),
                         !.conns[tasks[t].conn] =
                             [@ EXCEPT !.process = Len(procs) + 1,
                                       !.initialized = FALSE]], t))

\* start(): create_subprocess_exec raises.
StartFailed(t) ==
    /\ tasks[t].pc = "starting"
    /\ Becomes(Fail(World, t, "Exception"))

\* _initialize reads a message, or its read fails (30 s without a line, or
\* end of file from a child that exited).
HsRead(t) ==
    /\ tasks[t].pc = "hs_read"
    /\ \/ /\ procs[tasks[t].proc].alive
          /\ \E msg \in ChildOutputs(tasks[t].proc) :
                Becomes(initialize_read(Answered(World, tasks[t].proc, msg), t, msg))
       \/ Becomes(Fail(World, t,
                       IF procs[tasks[t].proc].alive THEN "Timeout" ELSE "RuntimeError"))

\* _initialize: the 100 ms sleep ends and self._initialized is set.
HsSleepDone(t) ==
    /\ tasks[t].pc = "hs_sleep"
    /\ Becomes(after_initialize(
           [World EXCEPT !.conns[tasks[t].conn].initialized = TRUE], t))

\* call_tool reads the next message and returns it, or its read fails.
CallRead(t) ==
    /\ tasks[t].pc = "call_read"
    /\ \/ /\ procs[tasks[t].proc].alive
          /\ \E msg \in ChildOutputs(tasks[t].proc) :
                Becomes(execute_finish(Answered(World, tasks[t].proc, msg), t, msg))
       \/ Becomes(call_tool_error(World, t,
                       IF procs[tasks[t].proc].alive THEN "Timeout" ELSE "RuntimeError"))

\* refresh_tool_index reads the next message, or its read fails.
ListRead(t) ==
    /\ tasks[t].pc = "list_read"
    /\ \/ /\ procs[tasks[t].proc].alive
          /\ \E msg \in ChildOutputs(tasks[t].proc) :
                Becomes(IF msg.kind = "error"
                        THEN refresh_error(Answered(World, tasks[t].proc, msg), t)
                        ELSE refresh_loop(Answered(World, tasks[t].proc, msg), t))
       \/ Becomes(refresh_error(World, t))

\* A child process exits.
ChildExit(p) ==
    /\ procs[p].alive
    /\ procs' = [procs EXCEPT ![p].alive = FALSE]
    /\ UNCHANGED <<graphFile, stateFile, memState, lastResult, svars,
                   pool, conns, locks, request_counter, tasks, wire>>

\* The caller has its result; the task slot serves the next request.
TaskReturn(t) ==
    /\ tasks[t].pc = "done"
    /\ tasks' = [tasks EXCEPT ![t] = IdleTask]
    /\ UNCHANGED <<graphFile, stateFile, memState, lastResult, svars,
                   pool, conns, locks, procs, request_counter, wire>>

\* The lines a child writes that are no JSON message: an empty line, a line
\* of log text.
JunkLines == {"", "log"}

\* _read_message in call_tool, line by line: readline returns a line the
\* child wrote.  An empty or non-JSON line is skipped and the loop calls
\* wait_for(readline, timeout) anew; a message is returned to call_tool.
CallLine(t) ==
    /\ tasks[t].pc = "call_read"
    /\ procs[tasks[t].proc].alive
    /\ \/ \E line \in JunkLines :
             /\ tasks' = [tasks EXCEPT ![t].waited = 0]
             /\ UNCHANGED <<graphFile, stateFile, memState, lastResult, svars,
                            pool, conns, locks, procs, request_counter, wire>>
       \/ \E msg \in ChildOutputs(tasks[t].proc) :
             Becomes(execute_finish(Answered(World, tasks[t].proc, msg), t, msg))

\* A tick passes while call_tool waits in readline.
CallTick(t) ==
    /\ tasks[t].pc = "call_read"
    /\ tasks[t].waited < ReadTimeout
    /\ tasks[t].elapsed < MaxElapsed
    /\ tasks' = [tasks EXCEPT ![t].waited = @ + 1, ![t].elapsed = @ + 1]
    /\ UNCHANGED <<graphFile, stateFile, memState, lastResult, svars,
                   pool, conns, locks, procs, request_counter, wire>>

\* wait_for raises TimeoutError: no line came for the whole timeout.
CallTimeout(t) ==
    /\ tasks[t].pc = "call_read"
    /\ tasks[t].waited = ReadTimeout
    /\ Becomes(call_tool_error(World, t, "Timeout"))

\* readline returns b"" at the end of a dead child's output.
CallClosed(t) ==
    /\ tasks[t].pc = "call_read"
    /\ ~procs[tasks[t].proc].alive
    /\ Becomes(call_tool_error(World, t, "RuntimeError"))

ConnInit ==
    /\ pool = [n \in ProviderNames |-> 0]
    /\ conns = <<>>
    /\ locks = <<>>
    /\ procs = <<>>
    /\ request_counter = 0
    /\ tasks = [t \in Tasks |-> IdleTask]
    /\ wire = {}


(***************************************************************************)
(* server.py: McpConnection.stop and close_mcp_connections                 *)
(***************************************************************************)
\* The keys of _mcp_connections.
PooledNames(w) == {n \in ProviderNames : w.pool[n] # 0}

\* _mcp_connections.items(): a dict lists its keys in the order they were
\* inserted, which is the order in which their connections were created.
RECURSIVE InOrder(_, _)
InOrder(w, names) ==
    IF names = {} THEN <<>>
    ELSE LET n == CHOOSE n \in names : \A m \in names : w.pool[n] <= w.pool[m]
         IN <<n>> \o InOrder(w, names \ {n})

\* close_mcp_connections: the loop over _mcp_connections.items(), up to the
\* next await that suspends.  The dict's iterator raises RuntimeError when
\* the dict has changed size since the loop began, and that is raised out
\* of the tool; stop() returns at once for a process that is not running;
\* after the loop the dict is cleared.
RECURSIVE close_loop(_, _)
close_loop(w, t) ==
    IF Cardinality(PooledNames(w)) # w.tasks[t].size
    THEN Return(w, t, ToolResult("raise", [NoMsg EXCEPT !.kind = "RuntimeError"],
                                 <<>>, <<>>))
    ELSE IF w.tasks[t].queue = <<>>
    THEN Return([w EXCEPT !.pool = [n \in ProviderNames |-> 0]], t,
                ToolResult("ok", NoMsg, <<>>, <<>>))
    ELSE LET c == w.pool[Head(w.tasks[t].queue)]
             w1 == [w EXCEPT !.tasks[t] = [@ EXCEPT !.queue = Tail(@), !.conn = c]]
         IN  IF Running(w1, c)
             THEN [w1 EXCEPT !.tasks[t] = [@ EXCEPT !.pc = "stopping",
                                                    !.proc = w1.conns[c].process]]
             ELSE close_loop(w1, t)

\* A call of close_mcp_connections() arrives.
CloseBegin(t) ==
    /\ tasks[t].pc = "idle"
    /\ Becomes(close_loop(
           [World EXCEPT !.tasks[t] =
               [IdleTask EXCEPT !.op = "close",
                                !.queue = InOrder(World, PooledNames(World)),
                                !.size = Cardinality(PooledNames(World))]], t))

\* stop(): the child exits on terminate() within the 5 s and wait() returns.
\* stop() assigns neither self.process nor self._initialized.
StopWait(t) ==
    /\ tasks[t].pc = "stopping"
    /\ Becomes(close_loop([World EXCEPT !.procs[tasks[t].proc].alive = FALSE], t))

\* stop(): wait() times out and kill() is called without awaiting the exit;
\* the child's return code is set when it exits (ChildExit).
StopTimeout(t) ==
    /\ tasks[t].pc = "stopping"
    /\ procs[tasks[t].proc].alive
    /\ Becomes(close_loop(World, t))

\* get_mcp_connection(name) called by itself, its return value kept in
\* lastResult.  The function does not await, so it runs in one step; slot 1
\* of the task table only carries the value out of the operator.
PoolGet(name) ==
    LET w == get_mcp_connection(World, 1, name) IN
    /\ pool' = w.pool
    /\ conns' = w.conns
    /\ locks' = w.locks
    /\ procs' = w.procs
    /\ lastResult' = Result("get", "returned", [name |-> name, conn |-> w.tasks[1].conn])
    /\ UNCHANGED <<graphFile, stateFile, memState, svars, request_counter, tasks, wire>>

\* _initialize reads one more notification from a child that writes them
\* without end.
HsChatter(t) ==
    /\ tasks[t].pc = "hs_read"
    /\ procs[tasks[t].proc].alive
    /\ Becomes(initialize_read(World, t, Notification))
GraphInit ==
    /\ graphFile \in {NoFile} \cup LibraryNames
    /\ stateFile = <<>>
    /\ memState = <<>>
    /\ lastResult = Result("none", "none", None)

(***************************************************************************)
(* Spec: the graph API of one project, called in any order.                *)
(***************************************************************************)
Init == GraphInit /\ SessionBound /\ ConnInit

Next ==
    \/ \E e \in AllEdgeIds \cup {"nope"} : graph_traverse(e) /\ UNCHANGED <<cvars, svars>>
    \/ \E n \in AllNodeIds \cup {"nowhere"} : graph_set_node(n) /\ UNCHANGED <<cvars, svars>>
    \/ graph_reset /\ UNCHANGED <<cvars, svars>>
    \/ \E n \in AllNodeIds \cup {"nowhere"}, m \in NewMaxValues :
          graph_override_max_visits(n, m) /\ UNCHANGED <<cvars, svars>>
    \/ \E g \in LibraryNames \cup {"missing"} : graph_activate(g) /\ UNCHANGED <<cvars, svars>>

Spec == Init /\ [][Next]_vars

(***************************************************************************)
(* SpecExec: one caller drives execute_mcp_tool through the "flow" graph,  *)
(* one call at a time, and traverses between calls or during them.  The    *)
(* children start and stay up; they may answer, answer late or not at all. *)
(***************************************************************************)
InitExec ==
    /\ graphFile = "flow"
    /\ stateFile = <<>>
    /\ memState = <<>>
    /\ lastResult = Result("none", "none", None)
    /\ SessionBound
    /\ ConnInit

NextExec ==
    \/ \E m \in ProviderNames, n \in ToolNames :
          request_counter < MaxRequests /\ ExecBegin(1, m, n)
    \/ StartDone(1)
    \/ HsRead(1)
    \/ HsSleepDone(1)
    \/ CallRead(1)
    \/ TaskReturn(1)
    \/ \E e \in {"e1", "e_done"} :
          graph_traverse(e) /\ UNCHANGED <<cvars, svars>>

SpecExec == InitExec /\ [][NextExec]_vars

(***************************************************************************)
(* SpecConn: concurrent calls of execute_mcp_tool in a project without a   *)
(* graph, so that every provider is enabled.  Each task serves one call;   *)
(* the calls are numbered in the order they arrive.                        *)
(***************************************************************************)
InitConn ==
    /\ graphFile = NoFile
    /\ stateFile = <<>>
    /\ memState = <<>>
    /\ lastResult = Result("none", "none", None)
    /\ SessionBound
    /\ ConnInit

\* Task t serves the next call to arrive.
NextToArrive(t) ==
    /\ tasks[t].pc = "idle"
    /\ \A u \in 1..(t - 1) : tasks[u].pc # "idle"

NextConn ==
    \/ \E t \in Tasks, m \in Providers : NextToArrive(t) /\ ExecBegin(t, m, "g")
    \/ \E t \in Tasks : LockResume(t)
    \/ \E t \in Tasks : StartDone(t)
    \/ \E t \in Tasks : StartFailed(t)
    \/ \E t \in Tasks : HsRead(t)
    \/ \E t \in Tasks : HsSleepDone(t)
    \/ \E t \in Tasks : CallRead(t)
    \/ \E p \in 1..Len(procs) : ChildExit(p)

SpecConn == InitConn /\ [][NextConn]_vars

(***************************************************************************)
(* SpecRefresh: a call of execute_mcp_tool (task 1) and a call of          *)
(* refresh_tool_index (task 2) in progress at once, without a graph.       *)
(***************************************************************************)
NextRefresh ==
    \/ \E m \in Providers : ExecBegin(1, m, "g")
    \/ \E m \in ProviderNames \cup {None} : RefreshBegin(2, m)
    \/ \E t \in {1, 2} : StartDone(t)
    \/ \E t \in {1, 2} : StartFailed(t)
    \/ \E t \in {1, 2} : HsRead(t)
    \/ \E t \in {1, 2} : HsSleepDone(t)
    \/ CallRead(1)
    \/ ListRead(2)
    \/ \E p \in 1..Len(procs) : ChildExit(p)

SpecRefresh == InitConn /\ [][NextRefresh]_vars


(***************************************************************************)
(* SpecCheck: graph_check_tool and graph_check_phrase between activations  *)
(* and traversals of the library's graphs.                                 *)
(***************************************************************************)
NextCheck ==
    \/ \E m \in ProviderNames, n \in ToolNames :
          graph_check_tool(m, n) /\ UNCHANGED <<cvars, svars>>
    \/ \E x \in Texts : graph_check_phrase(x) /\ UNCHANGED <<cvars, svars>>
    \/ \E e \in AllEdgeIds : graph_traverse(e) /\ UNCHANGED <<cvars, svars>>
    \/ \E g \in LibraryNames : graph_activate(g) /\ UNCHANGED <<cvars, svars>>

SpecCheck == Init /\ [][NextCheck]_vars

(***************************************************************************)
(* SpecMatch: EdgeCondition.matches_tool applied to one condition and one  *)
(* tool call.                                                              *)
(***************************************************************************)
ConditionTypes == {"tool", "phrase", "always", "default"}

\* The tool patterns of the conditions: none, full names, a name without
\* the "mcp__" prefix, a prefix, substrings, and a pattern of no tool.
ToolPatterns ==
    {<<>>, full_name("A", "g"), full_name("B", "r"),
     <<"A", "_", "_", "g">>, <<"m", "c", "p", "_", "_", "A">>,
     <<"_", "_", "A", "_", "_">>, <<"g">>, <<"x">>}

MatchInputs ==
    {[cond |-> EdgeCondition(ty, pat, <<>>), mcp |-> m, tool |-> n] :
        ty \in ConditionTypes, pat \in ToolPatterns, m \in ProviderNames, n \in ToolNames}

InitMatch ==
    /\ graphFile = NoFile
    /\ stateFile = <<>>
    /\ memState = <<>>
    /\ lastResult \in {Result("input", "none", in) : in \in MatchInputs}
    /\ SessionBound
    /\ ConnInit

\* cond.matches_tool(mcp_name, tool_name) on the input drawn.
MatchApply ==
    /\ lastResult.op = "input"
    /\ lastResult' = Result("matches_tool", "returned",
                            [in |-> lastResult.arg,
                             value |-> matches_tool(lastResult.arg.cond, lastResult.arg.mcp,
                                                    lastResult.arg.tool)])
    /\ UNCHANGED <<graphFile, stateFile, memState, cvars, svars>>

NextMatch == MatchApply

SpecMatch == InitMatch /\ [][NextMatch]_vars

(***************************************************************************)
(* SpecSession: a new server process; callers bind sessions, resolve them  *)
(* and call the graph API of project "P" (whose active graph is "once")    *)
(* with or without a project_dir and a session id.                         *)
(***************************************************************************)
InitSession ==
    /\ graphFile = "once"
    /\ stateFile = <<>>
    /\ memState = <<>>
    /\ lastResult = Result("none", "none", None)
    /\ SessionInit
    /\ ConnInit

\* A caller's project_dir and session_id arguments for project "P".
CallDirs == {None, "P"}
CallSessions == SessionIds \cup {None}

NextSession ==
    \/ \E d \in Dirs, s \in CallSessions : set_session(d, s) /\ UNCHANGED cvars
    \/ \E d \in Dirs \cup {None}, s \in CallSessions : resolve(d, s) /\ UNCHANGED cvars
    \/ \E d \in CallDirs, s \in CallSessions :
          WithSession("traverse", d, s, graph_traverse("e_again")) /\ UNCHANGED cvars
    \/ \E d \in CallDirs, s \in CallSessions :
          WithSession("check_tool", d, s, graph_check_tool("A", "g")) /\ UNCHANGED cvars
    \/ \E d \in CallDirs, s \in CallSessions :
          WithSession("check_phrase", d, s, graph_check_phrase(<<"x">>)) /\ UNCHANGED cvars
    \/ \E d \in CallDirs, s \in CallSessions :
          WithSession("reset", d, s, graph_reset) /\ UNCHANGED cvars
    \/ \E d \in CallDirs, s \in CallSessions :
          WithSession("set_node", d, s, graph_set_node("solo")) /\ UNCHANGED cvars
    \/ \E d \in CallDirs, s \in CallSessions :
          WithSession("override_max_visits", d, s, graph_override_max_visits("solo", 2))
             /\ UNCHANGED cvars
    \/ \E d \in CallDirs, s \in CallSessions :
          WithSession("activate", d, s, graph_activate("once")) /\ UNCHANGED cvars

SpecSession == InitSession /\ [][NextSession]_vars

(***************************************************************************)
(* SpecPersist: a GraphState is saved, loaded back and saved again, or     *)
(* loaded where no state file exists.                                      *)
(***************************************************************************)
\* Node ids as the parser reads them: strings, and the integer 7.
PersistNodeIds == {"a", "b", "int:7"}

\* A graph whose start node is n.
PersistGraph(n) ==
    AddNodes(EmptyGraph("G"), <<Node(n, <<"*">>, <<>>, TRUE, TRUE, 3)>>)

\* The states with at most k recorded transitions.
RECURSIVE PersistStates(_)
PersistStates(k) ==
    IF k = 0
    THEN {EmptyState} \cup
         {initialize_graph_state(PersistGraph(n), "g") : n \in PersistNodeIds}
    ELSE PersistStates(k - 1) \cup
         {record_transition(s, get_current_node(s), n, e, "Manual traverse") :
             s \in {x \in PersistStates(k - 1) : x.current_nodes # <<>>},
             n \in PersistNodeIds, e \in {None, "e1"}}

InitPersist ==
    /\ graphFile = NoFile
    /\ stateFile = <<>>
    /\ memState \in {<<s>> : s \in PersistStates(MaxRecorded)}
    /\ lastResult = Result("input", "none", None)
    /\ SessionBound
    /\ ConnInit

\* save_graph_state(state), the first time and after the load.
PersistSave ==
    /\ lastResult.op \in {"input", "loaded"}
    /\ stateFile' = save_graph_state(memState[1])
    /\ lastResult' = IF lastResult.op = "input"
                     THEN Result("saved", "ok", [state |-> memState[1]])
                     ELSE Result("resaved", "ok",
                                 [state |-> lastResult.arg.state, file |-> stateFile])
    /\ UNCHANGED <<graphFile, memState, cvars, svars>>

\* load_graph_state(), of the file saved or of no file.
PersistLoad ==
    /\ lastResult.op \in {"input", "saved"}
    /\ memState' = <<load_graph_state(stateFile)>>
    /\ lastResult' = IF lastResult.op = "input"
                     THEN Result("loaded_missing", "ok", None)
                     ELSE Result("loaded", "ok", lastResult.arg)
    /\ UNCHANGED <<graphFile, stateFile, cvars, svars>>

NextPersist == PersistSave \/ PersistLoad

SpecPersist == InitPersist /\ [][NextPersist]_vars

(***************************************************************************)
(* SpecValidate: Graph.validate applied to a graph of at most two nodes    *)
(* "a" and "b" and at most MaxEdges edges, whose ends may name a node that *)
(* is not there.                                                           *)
(***************************************************************************)
\* The node lists: each of "a", "b" absent or present with its two flags.
ValidateNodeLists ==
    LET variants(id) == {<<>>} \cup
            {<<Node(id, <<"*">>, <<>>, st, en, 10)>> : st \in BOOLEAN, en \in BOOLEAN}
    IN {na \o nb : na \in variants("a"), nb \in variants("b")}

ValidateEnds == {"a", "b", "ghost"}

\* The edge lists of n edges, named e1, e2, ... in order.
RECURSIVE ValidateEdgeLists(_)
ValidateEdgeLists(n) ==
    IF n = 0 THEN {<<>>}
    ELSE {Append(es, Edge(IF n = 1 THEN "e1" ELSE IF n = 2 THEN "e2" ELSE "e3", f, t,
                          EdgeCondition("always", <<>>, <<>>), 1)) :
             es \in ValidateEdgeLists(n - 1), f \in ValidateEnds, t \in ValidateEnds}

ValidateGraphs ==
    {AddEdges(AddNodes(EmptyGraph("G"), ns), es) :
        ns \in ValidateNodeLists,
        es \in UNION {ValidateEdgeLists(n) : n \in 0..MaxEdges}}

InitValidate ==
    /\ graphFile = NoFile
    /\ stateFile = <<>>
    /\ memState = <<>>
    /\ lastResult \in {Result("input", "none", g) : g \in ValidateGraphs}
    /\ SessionBound
    /\ ConnInit

\* graph.validate() on the graph drawn.
ValidateApply ==
    /\ lastResult.op = "input"
    /\ lastResult' = Result("validate", "returned",
                            [graph |-> lastResult.arg, errors |-> validate(lastResult.arg)])
    /\ UNCHANGED <<graphFile, stateFile, memState, cvars, svars>>

NextValidate == ValidateApply

SpecValidate == InitValidate /\ [][NextValidate]_vars

(***************************************************************************)
(* SpecDeadline: one caller's execute_mcp_tool calls in a project without  *)
(* a graph, the read of the tools/call response followed line by line and  *)
(* tick by tick.  The child may answer, write lines that are no JSON, stay *)
(* silent or exit.                                                         *)
(***************************************************************************)
NextDeadline ==
    \/ \E m \in Providers, n \in ToolNames :
          request_counter < MaxRequests /\ ExecBegin(1, m, n)
    \/ StartDone(1)
    \/ HsRead(1)
    \/ HsSleepDone(1)
    \/ CallLine(1)
    \/ CallTick(1)
    \/ CallTimeout(1)
    \/ CallClosed(1)
    \/ \E p \in 1..Len(procs) : ChildExit(p)
    \/ TaskReturn(1)

SpecDeadline == InitConn /\ [][NextDeadline]_vars

(***************************************************************************)
(* SpecSeven: the graph API on a project whose graph.yaml is "seven", the  *)
(* graph with a numbered node, from the first call on.                     *)
(***************************************************************************)
\* Entries of an execution path after which no further traversal is made.
MaxPath == 5

SevenEdgeIds == {GraphFiles["seven"].edges[i].id : i \in 1..Len(GraphFiles["seven"].edges)}

InitSeven ==
    /\ graphFile = "seven"
    /\ stateFile = <<>>
    /\ memState = <<>>
    /\ lastResult = Result("none", "none", None)
    /\ SessionBound
    /\ ConnInit

NextSeven ==
    \/ \E e \in SevenEdgeIds :
          /\ Len(load_graph_state(stateFile).execution_path) < MaxPath
          /\ graph_traverse(e)
          /\ UNCHANGED <<cvars, svars>>
    \/ \E n \in {"int:7", "w"} : graph_set_node(n) /\ UNCHANGED <<cvars, svars>>
    \/ graph_reset /\ UNCHANGED <<cvars, svars>>
    \/ \E n \in {"int:7", "w"}, m \in NewMaxValues :
          graph_override_max_visits(n, m) /\ UNCHANGED <<cvars, svars>>

SpecSeven == InitSeven /\ [][NextSeven]_vars

(***************************************************************************)
(* SpecPool: get_mcp_connection and close_mcp_connections called in any    *)
(* order on connections that were never used.                              *)
(***************************************************************************)
NextPool ==
    \/ \E n \in ProviderNames :
          /\ pool[n] # 0 \/ Len(conns) < MaxConns
          /\ PoolGet(n)
    \/ CloseBegin(2)
    \/ TaskReturn(2)

SpecPool == InitConn /\ [][NextPool]_vars

(***************************************************************************)
(* SpecStop: one caller's execute_mcp_tool calls (task 1) and calls of     *)
(* close_mcp_connections (task 2) at any moment, in a project without a    *)
(* graph.                                                                  *)
(***************************************************************************)
NextStop ==
    \/ \E m \in Providers : request_counter < MaxRequests /\ ExecBegin(1, m, "g")
    \/ StartDone(1)
    \/ HsRead(1)
    \/ HsSleepDone(1)
    \/ CallRead(1)
    \/ CloseBegin(2)
    \/ StopWait(2)
    \/ StopTimeout(2)
    \/ \E t \in {1, 2} : TaskReturn(t)
    \/ \E p \in 1..Len(procs) : ChildExit(p)

SpecStop == InitConn /\ [][NextStop]_vars

(***************************************************************************)
(* SpecHandshake: one caller's execute_mcp_tool calls on provider "A",     *)
(* whose child may write any number of notifications during the handshake, *)
(* answer initialize with a result or an error, answer late or not at all. *)
(***************************************************************************)
NextHandshake ==
    \/ request_counter < MaxRequests /\ ExecBegin(1, "A", "g")
    \/ StartDone(1)
    \/ HsRead(1)
    \/ HsChatter(1)
    \/ HsSleepDone(1)
    \/ CallRead(1)
    \/ TaskReturn(1)

SpecHandshake == InitConn /\ [][NextHandshake]_vars

(***************************************************************************)
(* SpecGate: execute_mcp_tool, one call at a time, in a project whose      *)
(* graph.yaml is the "flow" graph or a file that does not parse.           *)
(***************************************************************************)
InitGate ==
    /\ graphFile \in {"flow", "broken"}
    /\ stateFile = <<>>
    /\ memState = <<>>
    /\ lastResult = Result("none", "none", None)
    /\ SessionBound
    /\ ConnInit

SpecGate == InitGate /\ [][NextExec]_vars
(***************************************************************************)
(* Claims about the graph API                                              *)
(***************************************************************************)
\* The fields of a GraphState the claims compare.
Core(state) ==
    <<state.current_nodes, state.node_visits, state.execution_path,
      state.total_transitions>>

\* A graph.yaml exists and parses.
GraphActive == graphFile # NoFile /\ GraphParses(graphFile)

\* The state file holds an initialized state.
StateInitialized == load_graph_state(stateFile).current_nodes # <<>>

TraverseInputs == AllEdgeIds \cup {"nope"}

\* C1: after every successful traverse over an edge e, in any sequence of
\* traverse, set_node, reset, activate and override_max_visits calls, the
\* visit count of e.to is at most its cap (max_visits of the node when
\* positive, else the state's max_visits_default).
C1_VisitCap ==
    (lastResult.op = "traverse" /\ lastResult.kind = "success") =>
        LET g == load_graph_from_file(graphFile)
            s == load_graph_state(stateFile)
            e == g.edges[FindEdge(g, lastResult.arg)]
        IN /\ memState = <<s>>
           /\ get_visit_count(s, e.to_node) <= VisitCap(g, s, e.to_node)

\* C1 witness: a traversal that reaches the default cap of a node without a
\* positive max_visits.
C1_Witness ==
    /\ lastResult.op = "traverse" /\ lastResult.kind = "success"
    /\ graphFile = "spin"
    /\ get_visit_count(load_graph_state(stateFile), "spin") = DefaultMaxVisits

\* C2 as stated: a traverse that fails with MaxVisitsExceeded leaves the
\* state in memory and on disk equal to the state before the call.
C2_Original ==
    [][\A e \in TraverseInputs :
          (lastResult'.kind = "MaxVisitsExceeded" /\ lastResult'.arg = e
             /\ graph_traverse(e)) =>
              /\ stateFile' = stateFile
              /\ Core(memState'[1]) = Core(load_graph_state(stateFile))]_vars

\* C2 amended: a traverse on an initialized state that fails with
\* MaxVisitsExceeded leaves the state in memory and on disk equal to the
\* state before the call.
C2_FailedTraverseKeepsState ==
    [][\A e \in TraverseInputs :
          (lastResult'.kind = "MaxVisitsExceeded" /\ lastResult'.arg = e
             /\ StateInitialized /\ graph_traverse(e)) =>
              /\ stateFile' = stateFile
              /\ Core(memState'[1]) = Core(load_graph_state(stateFile))]_vars

\* C2 witness: a traverse failed with MaxVisitsExceeded after earlier
\* transitions had been recorded.
C2_Witness ==
    /\ lastResult.op = "traverse" /\ lastResult.kind = "MaxVisitsExceeded"
    /\ Len(load_graph_state(stateFile).execution_path) > 1

\* What C10 says of one traverse call, given the state it is compared with.
TraverseContract(e, before) ==
    LET g == load_graph_from_file(graphFile)
        found == FindEdge(g, e) # 0
        edge == g.edges[FindEdge(g, e)]
        cur == IF before.current_nodes = <<>> THEN get_start_node(g)
               ELSE get_current_node(before)
    IN /\ lastResult'.kind = "success" => (found /\ edge.from_node = cur)
       /\ ~found <=> lastResult'.kind = "EdgeNotFound"
       /\ (found /\ edge.from_node # cur) <=> lastResult'.kind = "EdgeNotFromCurrentNode"
       /\ lastResult'.kind \in {"EdgeNotFound", "EdgeNotFromCurrentNode"} =>
             /\ stateFile' = stateFile
             /\ Core(memState'[1]) = Core(before)
       /\ (found /\ edge.from_node = cur
             /\ get_visit_count(before, edge.to_node) < VisitCap(g, before, edge.to_node))
            => lastResult'.kind = "success"

\* C10 as stated: traverse succeeds only over an existing edge that leaves
\* the current node, reports EdgeNotFound or EdgeNotFromCurrentNode
\* otherwise and then leaves the state in memory and on disk unchanged;
\* an edge below its destination's cap is traversed whatever its condition.
C10_Original ==
    [][\A e \in TraverseInputs :
          (lastResult'.op = "traverse" /\ lastResult'.arg = e
             /\ GraphActive /\ graph_traverse(e)) =>
              TraverseContract(e, load_graph_state(stateFile))]_vars

\* C10 amended: the same, for a traverse on an initialized state.
C10_TraverseContract ==
    [][\A e \in TraverseInputs :
          (lastResult'.op = "traverse" /\ lastResult'.arg = e
             /\ GraphActive /\ StateInitialized /\ graph_traverse(e)) =>
              TraverseContract(e, load_graph_state(stateFile))]_vars

\* C10 witness: the phrase-conditioned edge e_back was traversed, and a
\* later traverse was refused because its edge leaves another node.
C10_Witness ==
    /\ lastResult.op = "traverse" /\ lastResult.kind = "EdgeNotFromCurrentNode"
    /\ \E i \in 1..Len(load_graph_state(stateFile).execution_path) :
          load_graph_state(stateFile).execution_path[i].edge_id = "e_back"

\* The "loop" graph is active and its state is the one k successive
\* traversals of e_self leave, counted from the start at visits[loop] = 1.
LoopAfter(k) ==
    /\ graphFile = "loop"
    /\ StateInitialized
    /\ LET s == load_graph_state(stateFile) IN
       /\ s.current_nodes = <<"loop">>
       /\ get_visit_count(s, "loop") = k + 1
       /\ Len(s.execution_path) = k + 1
       /\ \A i \in 2..(k + 1) : s.execution_path[i].edge_id = "e_self"

\* A traverse that failed with MaxVisitsExceeded for a node at 3 visits of
\* a cap of 3, and left the state as it was.
LoopRefused ==
    /\ lastResult'.kind = "MaxVisitsExceeded"
    /\ get_visit_count(load_graph_state(stateFile), "loop") = 3
    /\ VisitCap(load_graph_from_file(graphFile), load_graph_state(stateFile), "loop") = 3
    /\ stateFile' = stateFile
    /\ Core(memState'[1]) = Core(load_graph_state(stateFile))

\* C13 as stated: from visits[loop] = 1 with max_visits = 3, the first three
\* traverse(e_self) calls succeed and the fourth fails with
\* MaxVisitsExceeded(loop, 3, 3), the state unchanged.
C13_Original ==
    [][\A k \in 0..3 :
          (LoopAfter(k) /\ graph_traverse("e_self")) =>
              IF k < 3 THEN lastResult'.kind = "success" ELSE LoopRefused]_vars

\* C13 amended: the first two traverse(e_self) calls succeed (visits 2, 3)
\* and the third fails with MaxVisitsExceeded(loop, 3, 3), the state
\* unchanged.
C13_LoopCapScenario ==
    [][\A k \in 0..2 :
          (LoopAfter(k) /\ graph_traverse("e_self")) =>
              IF k < 2 THEN lastResult'.kind = "success" /\ LoopAfter(k + 1)'
              ELSE LoopRefused]_vars

\* C13 witness: the third traverse(e_self) in a row has been refused.
C13_Witness ==
    /\ LoopAfter(2)
    /\ lastResult = Result("traverse", "MaxVisitsExceeded", "e_self")

\* C14: after a traverse into node n was refused at visits[n] = c, a
\* successful override_max_visits(n, m) with m > c makes the following
\* traverse calls into n succeed until visits[n] reaches m.
C14_OverrideUnblocks ==
    [][\A e \in TraverseInputs :
          LET g == load_graph_from_file(graphFile)
              s == load_graph_state(stateFile)
              edge == g.edges[FindEdge(g, e)]
          IN (/\ GraphActive /\ StateInitialized
              /\ lastResult.op = "override_max_visits" /\ lastResult.kind = "success"
              /\ FindEdge(g, e) # 0
              /\ edge.from_node = get_current_node(s)
              /\ edge.to_node = lastResult.arg[1]
              /\ get_visit_count(s, edge.to_node) >= VisitCap(g, s, edge.to_node)
              /\ get_visit_count(s, edge.to_node) < lastResult.arg[2]
              /\ graph_traverse(e))
             => lastResult'.kind = "success"]_vars
(***************************************************************************)
(* Claims about the connections                                            *)
(***************************************************************************)
\* The positions of a call_tool that holds its connection's lock.
InCall == {"starting", "hs_read", "hs_sleep", "call_read"}

\* C7: on one connection at most one call_tool is inside the lock, so at
\* most one tools/call is outstanding, and the lock is served in the order
\* it is requested: a request joins the queue at its tail, the lock passes
\* to the head of the queue, and it is taken directly only when free with
\* nobody queued.
C7_SerializedFifo ==
    [][\A c \in 1..Len(conns) :
          LET lk == locks[LockOf(c)]
              nk == locks'[LockOf(c)]
          IN  /\ Cardinality({t \in Tasks : /\ tasks[t].op = "execute"
                                            /\ tasks[t].conn = c
                                            /\ tasks[t].pc \in InCall}) <= 1
              /\ \A t \in Tasks :
                    (tasks[t].op = "execute" /\ tasks[t].conn = c
                        /\ tasks[t].pc \in InCall) => lk.holder = t
              /\ (nk.holder # lk.holder /\ nk.holder # 0) =>
                    /\ lk.holder = 0
                    /\ \/ lk.waiters = <<>> /\ nk.waiters = <<>>
                       \/ /\ lk.waiters # <<>>
                          /\ nk.holder = Head(lk.waiters)
                          /\ nk.waiters = Tail(lk.waiters)
              /\ (nk.holder = lk.holder \/ nk.holder = 0) =>
                    \/ nk.waiters = lk.waiters
                    \/ \E t \in Tasks : nk.waiters = Append(lk.waiters, t)]_vars

\* One call is reading its response while two more are queued behind it.
C7_Witness ==
    /\ tasks[1].pc = "call_read"
    /\ locks[LockOf(tasks[1].conn)].holder = 1
    /\ locks[LockOf(tasks[1].conn)].waiters = <<2, 3>>

\* C8: a call that waits for a lock waits only behind calls to its own
\* provider (the holder and the tasks queued before it), so a call to one
\* provider is never held up by a call to another.
C8_CrossProviderIndependent ==
    \A t \in Tasks :
        tasks[t].pc = "lockwait" =>
            LET lk == locks[LockOf(tasks[t].conn)] IN
            /\ \E i \in 1..Len(lk.waiters) : lk.waiters[i] = t
            /\ lk.holder # 0 => tasks[lk.holder].mcp = tasks[t].mcp
            /\ \A i \in 1..Len(lk.waiters) : tasks[lk.waiters[i]].mcp = tasks[t].mcp

\* A call to B that arrived after a call to A has completed with B's
\* response while the call to A still waits for A's.
C8_Witness ==
    /\ tasks[1].mcp = "A"
    /\ tasks[1].pc = "call_read"
    /\ tasks[2].mcp = "B"
    /\ tasks[2].pc = "done"
    /\ tasks[2].result.kind = "ok"
    /\ tasks[2].result.msg.id = tasks[2].rid
    /\ tasks[2].rid > tasks[1].rid

\* C9: every tools/call and tools/list request was written to a process
\* with which the handshake had been completed, and a connection marked
\* initialized whose process is running has completed it with that process.
C9_HandshakeBeforeUse ==
    /\ \A r \in wire : r.handshaken
    /\ \A c \in 1..Len(conns) :
          (conns[c].initialized /\ Running(World, c)) =>
              Handshaken(World, conns[c].process)

(***************************************************************************)
(* Claims about execute_mcp_tool                                           *)
(***************************************************************************)
\* The providers execute_mcp_tool finds enabled in the current state.
EnabledNow == exec_load(graphFile, stateFile).enabled

\* C3: a step of execute_mcp_tool taken on an initialized state leaves the
\* stored graph state (current node, total_transitions, visits, path) as it
\* is, and the edges a successful call reports are edges whose condition
\* matches the tool called: they are reported, not traversed.
C3_NoAutoAdvance ==
    [][\A t \in Tasks :
          (StateInitialized /\ tasks'[t] # tasks[t] /\ tasks'[t].op = "execute") =>
              /\ stateFile' = stateFile
              /\ (tasks'[t].pc = "done" /\ tasks'[t].result.kind = "ok") =>
                    \A i \in 1..Len(tasks'[t].result.hint) :
                       matches_tool(tasks'[t].result.hint[i].condition,
                                    tasks'[t].mcp, tasks'[t].tool)]_vars

\* A call has succeeded with a hint, and the current node is still the
\* source of the reported edge.
C3_Witness ==
    /\ tasks[1].pc = "done"
    /\ tasks[1].result.kind = "ok"
    /\ tasks[1].result.hint # <<>>
    /\ StateInitialized
    /\ get_current_node(load_graph_state(stateFile)) = tasks[1].result.hint[1].from_node

\* C4: a call for a provider the current node does not enable returns
\* PolicyDenied with the node's provider list; that call does not fetch a
\* connection from the pool, and it leaves the pool, the connections, the
\* processes, the request counter and the requests sent as they were.
C4_PolicyDenial ==
    [][\A t \in Tasks, m \in ProviderNames, n \in ToolNames :
          (/\ ExecBegin(t, m, n)
           /\ ~InList("*", EnabledNow)
           /\ ~InList(m, EnabledNow)) =>
              /\ tasks'[t].pc = "done"
              /\ tasks'[t].result.kind = "PolicyDenied"
              /\ tasks'[t].result.allowed = EnabledNow
              /\ ~tasks'[t].pool_accessed
              /\ UNCHANGED <<pool, conns, locks, procs, request_counter, wire>>]_vars

\* A call for provider B was denied at a node that enables only A, while a
\* connection to A is pooled.
C4_Witness ==
    /\ tasks[1].pc = "done"
    /\ tasks[1].mcp = "B"
    /\ tasks[1].result.kind = "PolicyDenied"
    /\ tasks[1].result.allowed = <<"A">>
    /\ pool["A"] # 0

\* C5: no tools/call is written to a child for a tool that is on the
\* tools_blocked list of the node that was current when the call was made.
C5_BlockedNeverForwarded ==
    \A r \in wire : r.method = "tools/call" => ~r.blocked

\* C6: the message call_tool hands back as the response to its tools/call
\* request carries that request's id and answers a tools/call.
C6_ResponseMatchesRequest ==
    \A t \in Tasks :
        (/\ tasks[t].op = "execute"
         /\ tasks[t].pc = "done"
         /\ tasks[t].result.msg.kind \in {"result", "error", "notification"}) =>
            /\ tasks[t].result.msg.id = tasks[t].rid
            /\ tasks[t].result.msg.re = "tools/call"


(***************************************************************************)
(* Claims about graph_check_tool and graph_check_phrase                    *)
(***************************************************************************)
\* The place of an edge in graph.edges, which is the order of insertion.
InsertionIndex(id) == FindEdge(load_graph_from_file(graphFile), id)

\* C11: the edges graph_check_tool and graph_check_phrase report (those
\* evaluate_transitions returns) are in non-decreasing priority, edges of
\* equal priority are in the order of their insertion into the graph, and
\* the recommended edge is the first of the list.
C11_PriorityOrdering ==
    (lastResult.op \in {"check_tool", "check_phrase"} /\ lastResult.kind = "matched") =>
        LET es == lastResult.arg.matching_edges IN
        /\ \A i, j \in 1..Len(es) :
              i < j => \/ es[i].priority < es[j].priority
                       \/ /\ es[i].priority = es[j].priority
                          /\ InsertionIndex(es[i].id) < InsertionIndex(es[j].id)
        /\ lastResult.arg.recommended_edge = es[1].id

\* C11 witness: a tool call matched four edges of the "ties" graph, two of
\* them of equal priority, and the edge of priority 0, inserted last, leads.
C11_Witness ==
    /\ lastResult.op = "check_tool" /\ lastResult.kind = "matched"
    /\ graphFile = "ties"
    /\ Len(lastResult.arg.matching_edges) = 4
    /\ lastResult.arg.recommended_edge = "t_f"
    /\ \E i \in 1..3 : lastResult.arg.matching_edges[i].priority =
                          lastResult.arg.matching_edges[i + 1].priority

\* A step that is a call of graph_check_tool or graph_check_phrase.
CheckCall ==
    \/ \E m \in ProviderNames, n \in ToolNames : graph_check_tool(m, n)
    \/ \E x \in Texts : graph_check_phrase(x)

\* C19 as stated: in every state, also an uninitialized one with no state
\* file, check_tool and check_phrase leave the persisted graph state as it
\* was.
C19_Original ==
    [][CheckCall => stateFile' = stateFile]_vars

\* C19 amended: in every state whose state file holds an initialized state,
\* check_tool and check_phrase leave the persisted graph state as it was.
C19_CheckReadOnly ==
    [][(StateInitialized /\ CheckCall) => stateFile' = stateFile]_vars

\* C19 witness: a phrase check matched edges after a transition had been
\* recorded, and the state file still ends with that transition.
C19_Witness ==
    /\ lastResult.op = "check_phrase" /\ lastResult.kind = "matched"
    /\ load_graph_state(stateFile).total_transitions = 1
    /\ Len(load_graph_state(stateFile).execution_path) = 2

\* The condition type of the edge of the active graph with this id.
ConditionType(id) ==
    load_graph_from_file(graphFile).edges[InsertionIndex(id)].condition.type

\* C34: for a tool or phrase trigger, an edge whose condition is of type
\* default is among the edges reported only when no other outgoing edge of
\* the current node matched the trigger.
C34_DefaultIsFallback ==
    (lastResult.op \in {"check_tool", "check_phrase"} /\ lastResult.kind = "matched") =>
        LET es == lastResult.arg.matching_edges IN
        \A i \in 1..Len(es) :
            ConditionType(es[i].id) = "default" =>
                \A j \in 1..Len(es) : ConditionType(es[j].id) = "default"

(***************************************************************************)
(* Claims about pure functions of the graph engine                         *)
(***************************************************************************)
\* "{p}__{t}"
short_name(mcp_name, tool_name) == <<mcp_name>> \o <<"_", "_">> \o <<tool_name>>

\* The rule C12 states, for the string a tool call is compared under.
ToolMatchRule(cond, name) ==
    \/ /\ cond.type \in {"tool", "default"}
       /\ cond.tool # <<>>
       /\ (name = cond.tool \/ startswith(name, cond.tool) \/ contains(name, cond.tool))
    \/ /\ cond.type = "default"
       /\ cond.tool = <<>>

\* C12 as stated: matches_tool(p, t) is true exactly when the condition is
\* tool or default with a non-empty pattern that "{p}__{t}" equals, starts
\* with or contains, or is default with an empty pattern.
C12_Original ==
    lastResult.op = "matches_tool" =>
        (lastResult.arg.value <=>
            ToolMatchRule(lastResult.arg.in.cond,
                          short_name(lastResult.arg.in.mcp, lastResult.arg.in.tool)))

\* C12 amended: the same rule for the string "mcp__{p}__{t}"; false for the
\* variants phrase and always.
C12_ToolMatchTotality ==
    lastResult.op = "matches_tool" =>
        /\ lastResult.arg.value <=>
              ToolMatchRule(lastResult.arg.in.cond,
                            full_name(lastResult.arg.in.mcp, lastResult.arg.in.tool))
        /\ lastResult.arg.in.cond.type \in {"phrase", "always"} => ~lastResult.arg.value

\* C12 witness: a tool condition whose pattern is only a prefix of the
\* call's full name matched it.
C12_Witness ==
    /\ lastResult.op = "matches_tool"
    /\ lastResult.arg.value
    /\ lastResult.arg.in.cond.type = "tool"
    /\ lastResult.arg.in.cond.tool = <<"m", "c", "p", "_", "_", "A">>
    /\ lastResult.arg.in.mcp = "A"

\* C18: a graph for which validate returns no errors has exactly one start
\* node, an outgoing edge for every node that is not an end node, an
\* incoming edge for every node that is not the start node, and only edges
\* whose from_node and to_node are nodes of the graph.
C18_ValidationSoundness ==
    (lastResult.op = "validate" /\ lastResult.arg.errors = {}) =>
        LET g == lastResult.arg.graph
            N == 1..Len(g.nodes)
            E == 1..Len(g.edges)
        IN /\ Cardinality({i \in N : g.nodes[i].is_start}) = 1
           /\ \A i \in N : ~g.nodes[i].is_end =>
                 \E j \in E : g.edges[j].from_node = g.nodes[i].id
           /\ \A i \in N : ~g.nodes[i].is_start =>
                 \E j \in E : g.edges[j].to_node = g.nodes[i].id
           /\ \A j \in E : /\ \E i \in N : g.nodes[i].id = g.edges[j].from_node
                           /\ \E i \in N : g.nodes[i].id = g.edges[j].to_node

\* C18 witness: a graph of two nodes, neither both start and end, and two
\* edges passed validation.
C18_Witness ==
    /\ lastResult.op = "validate"
    /\ lastResult.arg.errors = {}
    /\ Len(lastResult.arg.graph.nodes) = 2
    /\ Len(lastResult.arg.graph.edges) = 2
    /\ \A i \in 1..2 : ~(lastResult.arg.graph.nodes[i].is_start
                          /\ lastResult.arg.graph.nodes[i].is_end)

(***************************************************************************)
(* Claims about sessions and the caller boundary                           *)
(***************************************************************************)
\* C15: every caller-facing operation returns a structured result for every
\* input and state, also when no project directory can be resolved for the
\* session; none ends by raising an exception.
C15_NoErrorCrossesBoundary ==
    lastResult.op \in {"traverse", "check_tool", "check_phrase", "reset", "set_node",
                       "override_max_visits", "activate"}
        => lastResult.kind # "raise"

\* The slots of the sessions other than s are as they were.
OtherSlotsKept(s) ==
    \A o \in (DOMAIN session_store) \ {s} :
        o \in DOMAIN session_store' /\ session_store'[o] = session_store[o]

\* C16: resolve(override, sid) returns the override when one is given and
\* binds the slot of sid (if given) and the default slot to it; without an
\* override it returns the directory in the slot of sid if sid has one,
\* else the directory of the default slot, else fails (SessionUnresolved),
\* and binds nothing.  The default slot follows every binding; no resolve
\* or set_session call for one session id changes another id's slot, so a
\* slot always holds the last directory bound to its id.
C16_SessionResolution ==
    [][/\ \A d \in Dirs \cup {None}, s \in CallSessions :
            resolve(d, s) =>
               /\ OtherSlotsKept(s)
               /\ IF d # None
                  THEN /\ lastResult'.kind = "ok" /\ lastResult'.arg.dir = d
                       /\ default_session' = d
                       /\ s # None => (s \in DOMAIN session_store' /\ session_store'[s] = d)
                       /\ s = None => session_store' = session_store
                  ELSE /\ UNCHANGED svars
                       /\ IF s # None /\ s \in DOMAIN session_store
                          THEN lastResult'.kind = "ok"
                               /\ lastResult'.arg.dir = session_store[s]
                          ELSE IF default_session # None
                          THEN lastResult'.kind = "ok"
                               /\ lastResult'.arg.dir = default_session
                          ELSE lastResult'.kind = "ValueError"
       /\ \A d \in Dirs, s \in CallSessions :
            set_session(d, s) =>
               /\ OtherSlotsKept(s)
               /\ default_session' = d
               /\ s # None => session_store'[s] = d]_vars

\* C16 witness: session s1 resolved to the directory bound to it although a
\* later binding by another session has moved the default slot elsewhere.
C16_Witness ==
    /\ lastResult.op = "resolve" /\ lastResult.kind = "ok"
    /\ lastResult.arg.project_dir = None
    /\ lastResult.arg.session_id = "s1"
    /\ lastResult.arg.dir = "P"
    /\ default_session = "Q"
    /\ "s2" \in DOMAIN session_store

(***************************************************************************)
(* Claims about persistence                                                *)
(***************************************************************************)
\* The fields of a GraphState that a round trip is to preserve.
Persisted(state) ==
    <<state.current_nodes, state.node_visits, state.execution_path,
      state.active_graph, state.max_visits_default, state.total_transitions>>

\* C17: a GraphState saved and loaded back equals the original in
\* current_nodes, visits, trace records, active graph name, default
\* max visits and total_transitions, and saving what was loaded writes the
\* same file again; loading where no state file exists gives the empty
\* state.
C17_RoundTrip ==
    /\ lastResult.op \in {"loaded", "resaved"} =>
          Persisted(memState[1]) = Persisted(lastResult.arg.state)
    /\ lastResult.op = "resaved" => stateFile = lastResult.arg.file
    /\ lastResult.op = "loaded_missing" => memState[1] = EmptyState

(***************************************************************************)
(* Claims about the read path's deadline                                   *)
(***************************************************************************)
\* C20: the deadline of a tools/call request applies to the request as a
\* whole, whatever the child writes: once the timeout has passed since the
\* request was written, call_tool is no longer waiting for a line with the
\* connection's lock held; it has returned a response, a Timeout or a
\* connection error.
C20_PerRequestDeadline ==
    \A t \in Tasks :
        (tasks[t].pc = "call_read" /\ locks[LockOf(tasks[t].conn)].holder = t)
            => tasks[t].elapsed <= ReadTimeout

(***************************************************************************)
(* graph_set_node and graph_override_max_visits                            *)
(***************************************************************************)
\* The node ids a caller of graph_set_node passes.
SetNodeInputs == AllNodeIds \cup NodeIds(load_graph_from_file("seven")) \cup {"nowhere"}

\* What C32 says of a jump to a node of the graph: before is the state the
\* call found (after its initialization, if it was not initialized), after
\* the state the next call finds.
JumpRecorded(n, before, after) ==
    /\ lastResult'.kind = "success"
    /\ after.current_nodes = <<n>>
    /\ after.execution_path =
           Append(before.execution_path,
                  PathEntry(get_current_node(before), n, None, "Admin jump"))
    /\ get_visit_count(after, n) = get_visit_count(before, n) + 1
    /\ after.total_transitions = before.total_transitions + 1

\* C32: set_node on a node of the graph succeeds whatever the edges and
\* visit counts are and records the jump (edge_id null, from the previous
\* current node, visits of the node and total_transitions one higher,
\* current_nodes = [node_id]); on a node id that is not in the graph it
\* returns an error and leaves the state unchanged.
C32_SetNode ==
    [][\A n \in SetNodeInputs :
          (lastResult'.op = "set_node" /\ lastResult'.arg = n /\ GraphActive
             /\ graph_set_node(n)) =>
              LET g == load_graph_from_file(graphFile)
                  before == load_active_graph(graphFile, stateFile).state
              IN  IF HasNode(g, n)
                  THEN JumpRecorded(n, before, load_graph_state(stateFile'))
                  ELSE /\ lastResult'.kind = "NodeNotFound"
                       /\ stateFile' = stateFile]_vars

\* The visit count the state file holds for a node: JSON object keys are
\* strings, so the count of node 7 is the entry "7".
RecordedVisits(file, n) == get_visit_count(load_graph_state(file), json_key(n))

\* C33: override_max_visits(node_id, new_max) fails when new_max <=
\* visits[node_id] or when node_id is not in the graph, and whether it
\* succeeds or fails it leaves the graph file and the persisted state as
\* they were.
C33_OverrideFrame ==
    [][\A n \in SetNodeInputs, m \in NewMaxValues :
          (lastResult'.op = "override_max_visits" /\ lastResult'.arg = <<n, m>>
             /\ GraphActive /\ graph_override_max_visits(n, m)) =>
              /\ graphFile' = graphFile
              /\ stateFile' = stateFile
              /\ ~HasNode(load_graph_from_file(graphFile), n) =>
                     lastResult'.kind # "success"
              /\ m <= RecordedVisits(stateFile, n) => lastResult'.kind # "success"]_vars

(***************************************************************************)
(* close_mcp_connections beside execute_mcp_tool                           *)
(***************************************************************************)
\* Task t completes a call of close_mcp_connections in this step.
CloseCompletes(t) ==
    /\ tasks'[t].op = "close"
    /\ tasks'[t].pc = "done"
    /\ tasks[t].pc # "done"

\* C31: when close_mcp_connections completes, also beside execute_mcp_tool
\* calls that create connections or are in flight, it has gone through the
\* whole pool (stop applied to every connection), the pool is empty, and no
\* child is started on a connection that no pool entry refers to.
C31_CloseAll ==
    [][/\ \A t \in Tasks :
             CloseCompletes(t) =>
                 /\ tasks'[t].result.kind = "ok"
                 /\ tasks'[t].queue = <<>>
                 /\ \A n \in ProviderNames : pool'[n] = 0
       /\ \A u \in Tasks :
             (tasks[u].pc = "starting" /\ Len(procs') > Len(procs)) =>
                 pool'[conns[tasks[u].conn].name] = tasks[u].conn]_vars

(***************************************************************************)
(* What execute_mcp_tool forwards, and the children of a connection        *)
(***************************************************************************)
\* The graph and state load and the current node is in the graph and
\* enables the provider.
NodePermits(mcp_name) ==
    /\ GraphParses(graphFile)
    /\ \E la \in {load_active_graph(graphFile, stateFile)} :
          /\ la.kind = "ok"
          /\ HasNode(la.graph, get_current_node(la.state))
          /\ \E mcps \in {NodeOf(la.graph, get_current_node(la.state)).mcps_enabled} :
                InList("*", mcps) \/ InList(mcp_name, mcps)

\* C39: in a project with a graph file, execute_mcp_tool obtains a
\* connection for a provider only if the graph and the state loaded and the
\* current node exists and enables the provider; a graph that does not
\* load never has the call forwarded.
C39_NoFailOpen ==
    [][\A t \in Tasks :
          (/\ tasks[t].pc = "idle"
           /\ tasks'[t].op = "execute"
           /\ tasks'[t].conn # 0
           /\ graphFile # NoFile) => NodePermits(tasks'[t].mcp)]_vars

\* C40: a connection never has two children alive at once: no start is
\* issued for a connection while another start for it is in progress or
\* while its process is running, and every child that is alive is the
\* process its connection refers to.
C40_SingleChild ==
    /\ \A t, u \in Tasks :
          (tasks[t].pc = "starting" /\ tasks[u].pc = "starting"
             /\ tasks[t].conn = tasks[u].conn) => t = u
    /\ \A t \in Tasks :
          tasks[t].pc = "starting" => ~Running(World, tasks[t].conn)
    /\ \A p \in 1..Len(procs) :
          procs[p].alive => conns[procs[p].conn].process = p

(***************************************************************************)
(* The transitions hint of execute_mcp_tool and graph_check_tool           *)
(***************************************************************************)
\* graph.nodes[e.to_node].name if e.to_node in graph.nodes else e.to_node
to_name(graph, e) ==
    IF HasNode(graph, e.to_node) THEN NodeOf(graph, e.to_node).name ELSE e.to_node

\* "available_edges" of _graph_transitions_available in execute_mcp_tool
available_edges(graph, matching_edges) ==
    [i \in 1..Len(matching_edges) |->
        [id |-> matching_edges[i].id, to |-> matching_edges[i].to_node,
         to_name |-> to_name(graph, matching_edges[i])]]

\* "matching_edges" (edges_info) of graph_check_tool
edges_info(graph, matching_edges) ==
    [i \in 1..Len(matching_edges) |->
        [id |-> matching_edges[i].id, to |-> matching_edges[i].to_node,
         to_name |-> to_name(graph, matching_edges[i]),
         priority |-> matching_edges[i].priority]]

\* What graph_check_tool(mcp_name, tool_name) reports in the current state:
\* nothing when the graph does not load.
CheckToolReport(mcp_name, tool_name) ==
    LET la == load_active_graph(graphFile, stateFile) IN
    IF la.kind # "ok" THEN <<>>
    ELSE edges_info(la.graph,
                    evaluate_transitions(la.graph, la.state,
                                         ToolTrigger(mcp_name, tool_name)))

\* What execute_mcp_tool reports for the edges it found, none when the graph
\* did not load.
HintReport(edges) ==
    IF ~GraphActive THEN <<>>
    ELSE available_edges(load_graph_from_file(graphFile), edges)

\* C35: the transitions hint of a successful execute_mcp_tool lists the
\* edges graph_check_tool reports for the same provider and tool on the
\* graph and state the call loaded, in the same order, each with its id,
\* its destination and the destination's name; there is no hint exactly
\* when graph_check_tool reports no edge.
C35_HintEqualsCheck ==
    [][\A t \in Tasks :
          /\ (tasks[t].pc = "idle" /\ tasks'[t].op = "execute") =>
                LET report == CheckToolReport(tasks'[t].mcp, tasks'[t].tool)
                    hint == HintReport(tasks'[t].hint)
                IN  /\ Len(hint) = Len(report)
                    /\ \A i \in 1..Len(hint) :
                          /\ hint[i].id = report[i].id
                          /\ hint[i].to = report[i].to
                          /\ hint[i].to_name = report[i].to_name
          /\ (tasks[t].op = "execute" /\ tasks[t].pc # "done"
                /\ tasks'[t].pc = "done" /\ tasks'[t].result.kind = "ok") =>
                tasks'[t].result.hint = tasks[t].hint]_vars

\* C35 witness: a call that succeeded returned a hint of two edges.
C35_Witness ==
    /\ tasks[1].pc = "done"
    /\ tasks[1].op = "execute"
    /\ tasks[1].result.kind = "ok"
    /\ Len(tasks[1].result.hint) = 2
    /\ tasks[1].result.hint[1].priority < tasks[1].result.hint[2].priority

(***************************************************************************)
(* Claims about the handshake                                              *)
(***************************************************************************)
\* Task t's handshake has failed: the call returned an error, the
\* connection is not initialized and no notifications/initialized was
\* written in this step.
HandshakeFailed(t) ==
    /\ tasks'[t].pc = "done"
    /\ tasks'[t].result.kind = "error"
    /\ ~conns'[tasks[t].conn].initialized
    /\ procs'[tasks[t].proc].notified = procs[tasks[t].proc].notified

\* The messages a child may write while a handshake reads.
HandshakeMessages(p) == ChildOutputs(p) \cup {Notification}

\* C24: after initialize was sent with id i, a message whose id is not i is
\* discarded and the handshake reads on; the read succeeds (and
\* notifications/initialized is sent) only on a message with id i and no
\* error; the handshake fails (structured error, initialized stays false,
\* notifications/initialized not sent) when the message with id i carries
\* an error and when the tenth message has been discarded; and initialized
\* is set only after such a success.
C24_HandshakeLoop ==
    [][/\ \A t \in Tasks :
             tasks[t].pc = "hs_read" =>
                LET c == tasks[t].conn
                    p == tasks[t].proc
                    i == conns[c].init_request_id
                IN  /\ \A msg \in HandshakeMessages(p) :
                          Becomes(initialize_read(Answered(World, p, msg), t, msg)) =>
                             /\ (msg.id # i /\ tasks[t].reads + 1 < 10) =>
                                   /\ tasks'[t].pc = "hs_read"
                                   /\ tasks'[t].reads = tasks[t].reads + 1
                                   /\ conns' = conns
                                   /\ procs'[p].notified = procs[p].notified
                             /\ (msg.id # i /\ tasks[t].reads + 1 = 10) => HandshakeFailed(t)
                             /\ (msg.id = i /\ msg.kind = "error") => HandshakeFailed(t)
                             /\ (msg.id = i /\ msg.kind # "error") =>
                                   /\ tasks'[t].pc = "hs_sleep"
                                   /\ procs'[p].notified
                                   /\ ~conns'[c].initialized
                    /\ tasks'[t].pc = "hs_sleep" =>
                          \E r \in procs[p].pending : r.id = i /\ r \notin procs'[p].pending
                    /\ tasks'[t].pc \notin {"hs_read", "hs_sleep"} => HandshakeFailed(t)
       /\ \A k \in 1..Len(conns) :
             (conns'[k].initialized /\ ~conns[k].initialized) =>
                 \E u \in Tasks : tasks[u].pc = "hs_sleep" /\ tasks[u].conn = k]_vars

\* C24 witness: a handshake has failed on the tenth discarded message; the
\* connection is not initialized and its process was sent no
\* notifications/initialized.
C24_Witness ==
    /\ tasks[1].pc = "done"
    /\ tasks[1].reads = 9
    /\ tasks[1].result.kind = "error"
    /\ tasks[1].result.msg.kind = "RuntimeError"
    /\ ~conns[tasks[1].conn].initialized
    /\ procs[tasks[1].proc].alive
    /\ ~procs[tasks[1].proc].notified
    /\ procs[tasks[1].proc].init_sent # {}

(***************************************************************************)
(* Claims about request ids and tools/list                                 *)
(***************************************************************************)
\* C29: the ids of the requests written to the processes of one connection
\* are pairwise distinct: no tools/call or tools/list request carries an id
\* that an initialize request of the same connection carries, and no two
\* of them carry the same id.
C29_RequestIdsDistinct ==
    /\ \A r \in wire : \A p \in 1..Len(procs) :
          procs[p].conn = procs[r.proc].conn => r.id \notin procs[p].init_sent
    /\ \A r \in wire : \A q \in wire \ {r} :
          procs[q.proc].conn = procs[r.proc].conn => q.id # r.id

\* The positions of refresh_tool_index between start() and the read of the
\* tools/list response.
InRefresh == {"starting", "hs_read", "hs_sleep", "list_read"}

\* C30: while refresh_tool_index starts, initializes, writes to or reads
\* from a provider's connection, no call_tool and no other
\* refresh_tool_index is doing so on the same connection.
C30_ListSerialized ==
    \A t \in Tasks : \A u \in Tasks \ {t} :
        ~ /\ tasks[t].op = "refresh" /\ tasks[t].pc \in InRefresh
          /\ tasks[u].op \in {"execute", "refresh"}
          /\ tasks[u].pc \in InCall \cup InRefresh
          /\ tasks[u].conn = tasks[t].conn

(***************************************************************************)
(* Claims about initialization, reset and the effect of a traversal        *)
(***************************************************************************)
\* The state initialization leaves for the start node of graph g.
IsInitial(state, g) ==
    /\ state.current_nodes = <<get_start_node(g)>>
    /\ state.node_visits = [n \in {get_start_node(g)} |-> 1]
    /\ Len(state.execution_path) = 1
    /\ state.execution_path[1].from_node = None
    /\ state.execution_path[1].edge_id = None
    /\ state.total_transitions = 0

\* What the claim says of activate and of the first call on a project
\* without a state: the handler's state object, and the state the next
\* call loads, are the initial state of the active graph.
InitializationProduces ==
    /\ (lastResult'.op = "activate" /\ lastResult'.kind = "success") =>
          /\ IsInitial(memState'[1], load_graph_from_file(graphFile'))
          /\ IsInitial(load_graph_state(stateFile'), load_graph_from_file(graphFile'))
    /\ (lastResult'.op = "override_max_visits" /\ GraphActive /\ ~StateInitialized) =>
          /\ IsInitial(memState'[1], load_graph_from_file(graphFile))
          /\ IsInitial(load_graph_state(stateFile'), load_graph_from_file(graphFile))

\* What the claim says of a reset: the initial state, with the name of the
\* active graph and the default cap of the state before the reset.
ResetProduces ==
    /\ IsInitial(memState'[1], load_graph_from_file(graphFile))
    /\ IsInitial(load_graph_state(stateFile'), load_graph_from_file(graphFile))
    /\ load_graph_state(stateFile').active_graph = load_graph_state(stateFile).active_graph
    /\ load_graph_state(stateFile').max_visits_default
          = load_graph_state(stateFile).max_visits_default

\* C22 as stated: initialization and activate produce current_nodes =
\* [start], visits = {start: 1}, a trace of one record with from = null and
\* edge_id = null and total_transitions = 0; reset produces the same from
\* any prior state and keeps active_graph and max_visits_default as they
\* were before the reset.
C22_Original ==
    [][/\ InitializationProduces
       /\ (lastResult'.op = "reset" /\ lastResult'.kind = "success") => ResetProduces]_vars

\* C22 amended: as above, the reset being made on an initialized state.
C22_InitializationAndReset ==
    [][/\ InitializationProduces
       /\ (lastResult'.op = "reset" /\ lastResult'.kind = "success" /\ StateInitialized)
             => ResetProduces]_vars

\* C22 witness: a reset made after a traversal of the activated graph
\* "flow" left the initial state under the name the activation gave.
C22_Witness ==
    /\ lastResult.op = "reset" /\ lastResult.kind = "success"
    /\ graphFile = "flow"
    /\ memState[1].active_graph = "flow"
    /\ IsInitial(load_graph_state(stateFile), load_graph_from_file("flow"))
    /\ load_graph_state(stateFile).execution_path[1].reason = "Graph reset"

\* C23: a successful traverse over edge e from the current node c appends
\* exactly one record {from = c, to = e.to, edge_id = e.id} to the trace,
\* raises visits[e.to] by one, makes e.to the only current node, raises
\* total_transitions by one and leaves every other visit count as it was;
\* and the state the next operation loads is exactly this state.
C23_TraverseEffect ==
    [][(lastResult'.op = "traverse" /\ lastResult'.kind = "success") =>
          LET la == load_active_graph(graphFile, stateFile)
              before == la.state
              edge == la.graph.edges[FindEdge(la.graph, lastResult'.arg)]
              after == memState'[1]
              last == after.execution_path[Len(after.execution_path)]
          IN  /\ Len(after.execution_path) = Len(before.execution_path) + 1
              /\ SubSeq(after.execution_path, 1, Len(before.execution_path))
                    = before.execution_path
              /\ last.from_node = get_current_node(before)
              /\ last.to_node = edge.to_node
              /\ last.edge_id = edge.id
              /\ get_visit_count(after, edge.to_node)
                    = get_visit_count(before, edge.to_node) + 1
              /\ after.current_nodes = <<edge.to_node>>
              /\ after.total_transitions = before.total_transitions + 1
              /\ \A n \in (DOMAIN before.node_visits \cup DOMAIN after.node_visits)
                            \ {edge.to_node} :
                    get_visit_count(after, n) = get_visit_count(before, n)
              /\ Persisted(load_graph_state(stateFile')) = Persisted(after)]_vars

(***************************************************************************)
(* Claims about the pool and stop()                                        *)
(***************************************************************************)
\* What a call get(n) that returned the connection c did to the pool.
GetContract(n, c) ==
    /\ procs' = procs
    /\ n \notin Providers => (c = 0 /\ pool' = pool /\ conns' = conns)
    /\ pool[n] # 0 => (c = pool[n] /\ pool' = pool /\ conns' = conns)
    /\ (n \in Providers /\ pool[n] = 0) =>
          /\ c = Len(conns) + 1
          /\ conns' = Append(conns, McpConnection(n))
          /\ conns'[c].process = 0
          /\ pool' = [pool EXCEPT ![n] = c]

\* C21: in any sequence of get and close_all the pool holds at most one
\* connection per provider name, each under its own name; while no
\* close_all intervenes a pooled provider keeps its connection and get
\* returns that same connection; get for a provider that is not configured
\* returns null and inserts nothing; and get starts no child process and
\* leaves a new connection unstarted.
C21_PoolGet ==
    [][/\ \A n \in ProviderNames : \A m \in ProviderNames :
             /\ pool[n] # 0 => conns[pool[n]].name = n
             /\ (pool[n] # 0 /\ pool[n] = pool[m]) => n = m
       /\ \A n \in ProviderNames :
             (pool[n] # 0 /\ pool'[n] # pool[n]) =>
                 (tasks'[2].op = "close" /\ tasks'[2].pc = "done" /\ tasks[2].pc # "done")
       /\ \A n \in ProviderNames :
             PoolGet(n) => GetContract(n, lastResult'.arg.conn)]_vars

\* C21 witness: after a close_all a second connection object was made for
\* "A" and a repeated get returns it; the first one is no longer pooled.
C21_Witness ==
    /\ lastResult.op = "get"
    /\ lastResult.arg.name = "A"
    /\ lastResult.arg.conn = 3
    /\ pool["A"] = 3
    /\ conns[1].name = "A"
    /\ pool["B"] = 0
    /\ procs = <<>>

\* C26: when stop() has completed on a connection, its initialized flag is
\* false and its child handle is cleared.
C26_StopReturnsToUnstarted ==
    [][\A t \in Tasks :
          (tasks[t].pc = "stopping" /\ tasks'[t].pc # "stopping") =>
              /\ conns'[tasks[t].conn].process = 0
              /\ ~conns'[tasks[t].conn].initialized]_vars

(***************************************************************************)
(* Claims about restart, recovery and timeouts                             *)
(***************************************************************************)
\* Task t's call_tool enters its connection's lock in this step.
Enters(t) ==
    /\ tasks'[t].op = "execute"
    /\ tasks'[t].conn # 0
    /\ tasks'[t].conn <= Len(conns)
    /\ locks[LockOf(tasks'[t].conn)].holder # t
    /\ \/ locks'[LockOf(tasks'[t].conn)].holder = t
       \/ tasks[t].pc \in {"idle", "lockwait"} /\ tasks'[t].pc = "done"

\* The tools/call requests written in this step.
Written == wire' \ wire

\* C25: when the child of a connection has exited, the next call_tool on
\* the connection starts a new process; the new process becomes the
\* connection's, initialized is reset to false and the handshake is begun
\* on the new process; and every tools/call is written to the connection's
\* running process after a complete handshake with that very process.
C25_RestartAfterDeath ==
    [][\A t \in Tasks :
          /\ (Enters(t) /\ conns[tasks'[t].conn].process # 0
                /\ ~procs[conns[tasks'[t].conn].process].alive) =>
                /\ tasks'[t].pc = "starting"
                /\ Written = {}
          /\ (tasks[t].pc = "starting" /\ tasks'[t].pc # "starting"
                /\ Len(procs') = Len(procs) + 1) =>
                /\ conns'[tasks[t].conn].process = Len(procs')
                /\ ~conns'[tasks[t].conn].initialized
                /\ tasks'[t].pc = "hs_read"
                /\ tasks'[t].proc = Len(procs')
                /\ procs'[Len(procs')].init_sent # {}
                /\ Written = {}
          /\ \A r \in Written :
                (r.id = tasks'[t].rid /\ tasks'[t].op = "execute") =>
                    /\ r.proc = conns'[tasks'[t].conn].process
                    /\ procs[r.proc].alive
                    /\ procs[r.proc].init_ok
                    /\ procs[r.proc].notified
                    /\ conns'[tasks'[t].conn].initialized]_vars

\* C25 witness: provider A's first process answered a call and exited; a
\* later call was written to A's second process after its handshake.
C25_Witness ==
    \E r1 \in wire : \E r2 \in wire :
        /\ r1.mcp = "A" /\ r2.mcp = "A"
        /\ r1.proc < r2.proc
        /\ ~procs[r1.proc].alive
        /\ procs[r2.proc].init_ok /\ procs[r2.proc].notified
        /\ conns[pool["A"]].process = r2.proc
        /\ conns[pool["A"]].initialized

\* C27: a failed handshake or connection error is returned as a structured
\* error, the pool keeps mapping the provider to the same connection, and
\* the next call for the provider starts again from scratch: a call that
\* finds the connection not initialized after an earlier attempt starts a
\* new process instead of continuing on the old one.
C27_RetryFromScratch ==
    [][/\ \A n \in Providers : pool[n] # 0 => pool'[n] = pool[n]
       /\ \A t \in Tasks :
             /\ (tasks[t].pc \in {"starting", "hs_read", "hs_sleep"}
                   /\ tasks'[t].pc = "done") => tasks'[t].result.kind = "error"
             /\ (Enters(t) /\ conns[tasks'[t].conn].process # 0
                   /\ ~conns[tasks'[t].conn].initialized) =>
                   tasks'[t].pc = "starting"]_vars

\* C28: when the read of a tools/call response times out, call_tool returns
\* a Timeout error, the child is not terminated, initialized stays true and
\* the lock is released; and a call_tool that finds the connection running
\* and initialized writes its request to the same process without a new
\* start or handshake.
C28_TimeoutLeavesUsable ==
    [][\A t \in Tasks :
          /\ (tasks[t].pc = "call_read" /\ tasks'[t].pc = "done"
                /\ tasks'[t].result.msg.kind = "Timeout") =>
                /\ tasks'[t].result.kind = "error"
                /\ procs' = procs
                /\ procs[tasks[t].proc].alive
                /\ conns' = conns
                /\ conns[tasks[t].conn].initialized
                /\ locks'[LockOf(tasks[t].conn)].holder # t
          /\ (Enters(t) /\ conns[tasks'[t].conn].initialized
                /\ Running(World, tasks'[t].conn)) =>
                /\ tasks'[t].pc = "call_read"
                /\ Written # {}
                /\ \A r \in Written :
                      r.proc = conns[tasks'[t].conn].process /\ r.id = tasks'[t].rid
                /\ Len(procs') = Len(procs)
                /\ conns' = conns
                /\ procs'[conns[tasks'[t].conn].process].init_sent
                      = procs[conns[tasks'[t].conn].process].init_sent]_vars

\* C28 witness: a call to A timed out and a later call to A is reading its
\* response on the same process, which had one handshake.
C28_Witness ==
    /\ tasks[1].pc = "done" /\ tasks[1].result.msg.kind = "Timeout"
    /\ tasks[2].pc = "call_read"
    /\ tasks[2].conn = tasks[1].conn
    /\ tasks[2].proc = tasks[1].proc
    /\ Cardinality(procs[tasks[2].proc].init_sent) = 1
    /\ Len(procs) = 1

(***************************************************************************)
(* Invariants of the persisted graph state                                 *)
(***************************************************************************)
\* C36: once the state is initialized, after any sequence of traverse,
\* set_node, reset and activate calls, current_nodes has exactly one
\* element, that element is a node of the active graph, and every key of
\* the visit counts is a node of the active graph.
C36_WellFormed ==
    (GraphActive /\ StateInitialized) =>
        LET s == load_graph_state(stateFile)
            g == load_graph_from_file(graphFile)
        IN  /\ Len(s.current_nodes) = 1
            /\ HasNode(g, s.current_nodes[1])
            /\ DOMAIN s.node_visits \subseteq NodeIds(g)

\* The sum of the visit counts of a state.
RECURSIVE SumOver(_, _)
SumOver(visits, keys) ==
    IF keys = {} THEN 0
    ELSE LET k == CHOOSE k \in keys : TRUE
         IN  visits[k] + SumOver(visits, keys \ {k})

\* C37: once the state is initialized, after any sequence of traverse,
\* set_node and reset calls, total_transitions is the length of the trace
\* less one, the visit counts add up to the length of the trace, the
\* current node is the `to` of the last trace record, and every record
\* after the first starts where the record before it ended.
C37_Bookkeeping ==
    (GraphActive /\ StateInitialized) =>
        LET s == load_graph_state(stateFile)
            path == s.execution_path
        IN  /\ s.total_transitions = Len(path) - 1
            /\ SumOver(s.node_visits, DOMAIN s.node_visits) = Len(path)
            /\ get_current_node(s) = path[Len(path)].to_node
            /\ \A i \in 2..Len(path) : path[i].from_node = path[i - 1].to_node

\* The successful traversals of the run of traverse calls a state ends
\* with: the trace records at the end of the path that a traverse wrote.
RECURSIVE TraversalsAtEnd(_)
TraversalsAtEnd(path) ==
    IF path = <<>> \/ path[Len(path)].reason # "Manual traverse" THEN 0
    ELSE 1 + TraversalsAtEnd(SubSeq(path, 1, Len(path) - 1))

\* The caps of the first k nodes of a graph, added up.
RECURSIVE SumCaps(_, _, _)
SumCaps(graph, state, k) ==
    IF k = 0 THEN 0
    ELSE VisitCap(graph, state, graph.nodes[k].id) + SumCaps(graph, state, k - 1)

\* C38: in a run of traverse calls from an initialized state the successful
\* traversals number at most the sum of the nodes' caps less one, on a
\* cyclic graph as well.
C38_LoopBound ==
    (GraphActive /\ StateInitialized) =>
        LET s == load_graph_state(stateFile)
            g == load_graph_from_file(graphFile)
        IN  TraversalsAtEnd(s.execution_path) <= SumCaps(g, s, Len(g.nodes)) - 1
====
